---- MODULE Spec2Model ----
(***************************************************************************)
(* Model of fs-source: the face-detection driven OBS source switcher.      *)
(*                                                                         *)
(*   fs_source_daemon.py  FaceDetectionDaemon   (standby/active daemon)    *)
(*   fs_source.py         FaceDetectionSwitcher (remote-frame variant)     *)
(*   fs_source_native.py  FaceDetectionNative   (local-camera variant)     *)
(*                                                                         *)
(* The remote mixer (OBS) is the pair scenes/items.  A remote request can  *)
(* raise; which requests raise during one call of                          *)
(* set_source_visibility_global is the set F of failing request targets.   *)
(***************************************************************************)
EXTENDS Integers, Sequences, FiniteSets, TLC

VARIABLES
    variant,              \* which program runs: "daemon", "switcher", "native"
    config,               \* the configuration dictionary (self.config)
    pc,                   \* position of the run loop
    obs_ws,               \* self.obs_ws: "None", "obsws" (connected), "closed"
    camera,               \* self.camera of the native variant: "None", "open", "released"
    face_detected,        \* self.face_detected
    last_detection_time,  \* self.last_detection_time
    consecutive_errors,   \* local of active_mode() / run()
    scenes,               \* remote: the scene names GetSceneList returns, in order
    items,                \* remote: scene name -> the items GetSceneItemList returns
    syncs,                \* set_source_visibility_global calls made by the last step
    calls,                \* remote requests issued by the last step, in order
    event,                \* transition emitted by the last step: "none", "present", "absent"
    step,                 \* what the last step of the run loop was
    frame,                \* what capture and detection gave in the last step
    script,               \* SpecE2E: the detector results still to come
    items0,               \* SpecSync: the items before the first call
    emitted,              \* the last two transitions emitted in the run, and
                          \* whether face_detected was reset since
    reconnect_attempts    \* SpecConnect: self.reconnect_attempts, which only the
                          \* log lines of connect_obs() read

vars == <<variant, config, pc, obs_ws, camera, face_detected, last_detection_time,
          consecutive_errors, scenes, items, syncs, calls, event, step, frame,
          script, items0, emitted, reconnect_attempts>>

-----------------------------------------------------------------------------
(* Bounds *)

\* Most failed connection attempts in a row that SpecConnect follows.
MaxAttempts == 25

\* Most scene items in the whole scene graph of SpecSync.
MaxItems == 3

\* The clock readings time.time() can return are 0..MaxTime; the last one stays.
MaxTime == 2

\* A falsy name in Python: None or the empty string.
NoName == ""

\* The scenes of the remote when a program starts, in the order of its list.
SyncScenes == <<"A", "B", "C">>

-----------------------------------------------------------------------------
(* The remote control protocol, as the code consumes it *)

Request(request, sceneName, sceneItemId, sceneItemEnabled, ok) ==
    [request |-> request, sceneName |-> sceneName, sceneItemId |-> sceneItemId,
     sceneItemEnabled |-> sceneItemEnabled, ok |-> ok]

GetSceneList(ok) == Request("GetSceneList", NoName, 0, FALSE, ok)

GetSceneItemList(sceneName, ok) == Request("GetSceneItemList", sceneName, 0, FALSE, ok)

SetSceneItemEnabled(sceneName, sceneItemId, enabled, ok) ==
    Request("SetSceneItemEnabled", sceneName, sceneItemId, enabled, ok)

\* A request target that can be made to fail.
Target(request, sceneName, sceneItemId) ==
    [request |-> request, sceneName |-> sceneName, sceneItemId |-> sceneItemId]

Raises(F, request, sceneName, sceneItemId) ==
    Target(request, sceneName, sceneItemId) \in F

\* Mutant: the request toggles the flag.
RemoteSetEnabled_toggle(its, sceneName, sceneItemId, enabled) ==
    [its EXCEPT ![sceneName] =
        [k \in DOMAIN @ |->
            IF @[k].sceneItemId = sceneItemId
            THEN [@[k] EXCEPT !.sceneItemEnabled = ~@]
            ELSE @[k]]]

\* What a successful SetSceneItemEnabled does on the remote: the item of that
\* scene with that scene-scoped id takes the flag.
RemoteSetEnabled(its, sceneName, sceneItemId, enabled) ==
    [its EXCEPT ![sceneName] =
        [k \in DOMAIN @ |->
            IF @[k].sceneItemId = sceneItemId
            THEN [@[k] EXCEPT !.sceneItemEnabled = enabled]
            ELSE @[k]]]

\* The local state of one set_source_visibility_global call.
Frame(its) == [items |-> its, calls |-> <<>>, changes_made |-> 0, raised |-> FALSE]

\* What a call leaves: the remote items, the requests made, the value returned
\* and the count the call kept (changes_made / scenes_modified).
Outcome(its, cs, result, changes_made) ==
    [items |-> its, calls |-> cs, result |-> result, changes_made |-> changes_made]

-----------------------------------------------------------------------------
(* FaceDetectionDaemon.set_source_visibility_global *)

\* Mutant: the exclusion is ignored.
Daemon_skip_scene_never(scene_name, exclude_scene) == FALSE

\* `if exclude_scene and scene_name == exclude_scene: continue`
Daemon_skip_scene(scene_name, exclude_scene) ==
    exclude_scene # NoName /\ scene_name = exclude_scene

\* `if item['sourceName'] == source_name:`
Daemon_item_matches(item, source_name) == item.sourceName = source_name

\* the sceneItemId the request is addressed with
Daemon_item_id(item) == item.sceneItemId

\* Mutant: the count is set, not incremented.
Daemon_changes_made_once(changes_made) == IF changes_made = 0 THEN 1 ELSE changes_made

\* `changes_made += 1`
Daemon_changes_made(changes_made) == changes_made + 1

RECURSIVE Daemon_item_loop(_, _, _, _, _, _)
Daemon_item_loop(st, scene_items, scene_name, source_name, visible, F) ==
    IF scene_items = <<>> THEN st
    ELSE LET item == Head(scene_items)
             id == Daemon_item_id(item)
             ok == ~Raises(F, "SetSceneItemEnabled", scene_name, id)
         IN  IF ~Daemon_item_matches(item, source_name)
             THEN Daemon_item_loop(st, Tail(scene_items), scene_name, source_name, visible, F)
             ELSE IF ~ok
             THEN [st EXCEPT !.calls = Append(@, SetSceneItemEnabled(scene_name, id, visible, FALSE)),
                             !.raised = TRUE]
             ELSE Daemon_item_loop(
                    [st EXCEPT !.items = RemoteSetEnabled(@, scene_name, id, visible),
                               !.calls = Append(@, SetSceneItemEnabled(scene_name, id, visible, TRUE)),
                               !.changes_made = Daemon_changes_made(@)],
                    Tail(scene_items), scene_name, source_name, visible, F)

RECURSIVE Daemon_scene_loop(_, _, _, _, _, _)
Daemon_scene_loop(st, all_scenes, source_name, visible, exclude_scene, F) ==
    IF all_scenes = <<>> THEN st
    ELSE LET scene_name == Head(all_scenes)
             rest == Tail(all_scenes)
         IN  IF Daemon_skip_scene(scene_name, exclude_scene)
             THEN Daemon_scene_loop(st, rest, source_name, visible, exclude_scene, F)
             ELSE IF Raises(F, "GetSceneItemList", scene_name, 0)
             THEN [st EXCEPT !.calls = Append(@, GetSceneItemList(scene_name, FALSE)),
                             !.raised = TRUE]
             ELSE LET st1 == Daemon_item_loop(
                                [st EXCEPT !.calls = Append(@, GetSceneItemList(scene_name, TRUE))],
                                st.items[scene_name], scene_name, source_name, visible, F)
                  IN  IF st1.raised THEN st1
                      ELSE Daemon_scene_loop(st1, rest, source_name, visible, exclude_scene, F)

\* Mutant: the scene list of the first response is kept for later calls.
Daemon_all_scenes_kept(scs) == SyncScenes

\* `all_scenes = scenes_response.getScenes()`: the scenes this call's own
\* GetSceneList response names.
Daemon_all_scenes(scs) == scs

Daemon_set_source_visibility_global(ws, its, scs, source_name, visible, exclude_scene, F) ==
    IF ws = "None" THEN Outcome(its, <<>>, FALSE, 0)
    ELSE IF source_name = NoName THEN Outcome(its, <<>>, FALSE, 0)
    ELSE IF Raises(F, "GetSceneList", NoName, 0)
    THEN Outcome(its, <<GetSceneList(FALSE)>>, FALSE, 0)
    ELSE LET st == Daemon_scene_loop([Frame(its) EXCEPT !.calls = <<GetSceneList(TRUE)>>],
                                     Daemon_all_scenes(scs), source_name, visible,
                                     exclude_scene, F)
         IN  Outcome(st.items, st.calls, ~st.raised /\ st.changes_made > 0, st.changes_made)

-----------------------------------------------------------------------------
(* FaceDetectionNative.set_source_visibility_global *)

\* `if exclude_scene and scene_name == exclude_scene: continue`
Native_skip_scene(scene_name, exclude_scene) ==
    exclude_scene # NoName /\ scene_name = exclude_scene

\* Mutant: any named item matches.
Native_item_matches_any(item, source_name) == item.sourceName # NoName

\* `if item['sourceName'] == source_name:`
Native_item_matches(item, source_name) == item.sourceName = source_name

\* the sceneItemId the request is addressed with
Native_item_id(item) == item.sceneItemId

RECURSIVE Native_item_loop(_, _, _, _, _, _)
Native_item_loop(st, scene_items, scene_name, source_name, visible, F) ==
    IF scene_items = <<>> THEN st
    ELSE LET item == Head(scene_items)
             id == Native_item_id(item)
             ok == ~Raises(F, "SetSceneItemEnabled", scene_name, id)
         IN  IF ~Native_item_matches(item, source_name)
             THEN Native_item_loop(st, Tail(scene_items), scene_name, source_name, visible, F)
             ELSE IF ~ok
             THEN [st EXCEPT !.calls = Append(@, SetSceneItemEnabled(scene_name, id, visible, FALSE)),
                             !.raised = TRUE]
             ELSE Native_item_loop(
                    [st EXCEPT !.items = RemoteSetEnabled(@, scene_name, id, visible),
                               !.calls = Append(@, SetSceneItemEnabled(scene_name, id, visible, TRUE)),
                               !.changes_made = @ + 1],
                    Tail(scene_items), scene_name, source_name, visible, F)

RECURSIVE Native_scene_loop(_, _, _, _, _, _)
Native_scene_loop(st, all_scenes, source_name, visible, exclude_scene, F) ==
    IF all_scenes = <<>> THEN st
    ELSE LET scene_name == Head(all_scenes)
             rest == Tail(all_scenes)
         IN  IF Native_skip_scene(scene_name, exclude_scene)
             THEN Native_scene_loop(st, rest, source_name, visible, exclude_scene, F)
             ELSE IF Raises(F, "GetSceneItemList", scene_name, 0)
             THEN [st EXCEPT !.calls = Append(@, GetSceneItemList(scene_name, FALSE)),
                             !.raised = TRUE]
             ELSE LET st1 == Native_item_loop(
                                [st EXCEPT !.calls = Append(@, GetSceneItemList(scene_name, TRUE))],
                                st.items[scene_name], scene_name, source_name, visible, F)
                  IN  IF st1.raised THEN st1
                      ELSE Native_scene_loop(st1, rest, source_name, visible, exclude_scene, F)

Native_set_source_visibility_global(ws, its, scs, source_name, visible, exclude_scene, F) ==
    IF ws = "None" THEN Outcome(its, <<>>, FALSE, 0)
    ELSE IF source_name = NoName THEN Outcome(its, <<>>, FALSE, 0)
    ELSE IF Raises(F, "GetSceneList", NoName, 0)
    THEN Outcome(its, <<GetSceneList(FALSE)>>, FALSE, 0)
    ELSE LET st == Native_scene_loop([Frame(its) EXCEPT !.calls = <<GetSceneList(TRUE)>>],
                                     scs, source_name, visible, exclude_scene, F)
         IN  Outcome(st.items, st.calls, ~st.raised /\ st.changes_made > 0, st.changes_made)

-----------------------------------------------------------------------------
(* FaceDetectionSwitcher.set_source_visibility_global *)

\* `if scene_name in exclude_scenes: continue`; exclude_scenes is a list, kept
\* here as the set of its elements (None becomes the empty list).
\* Mutant: no scene is skipped.
Switcher_skip_scene_never(scene_name, exclude_scenes) == FALSE

Switcher_skip_scene(scene_name, exclude_scenes) == scene_name \in exclude_scenes

\* `if item['sourceName'] == source_name:`
Switcher_item_matches(item, source_name) == item.sourceName = source_name

\* the sceneItemId the request is addressed with
Switcher_item_id(item) == item.sceneItemId

RECURSIVE Switcher_item_loop(_, _, _, _, _, _)
Switcher_item_loop(st, scene_items, scene_name, source_name, visible, F) ==
    IF scene_items = <<>> THEN st
    ELSE LET item == Head(scene_items)
             id == Switcher_item_id(item)
             ok == ~Raises(F, "SetSceneItemEnabled", scene_name, id)
         IN  IF ~Switcher_item_matches(item, source_name)
             THEN Switcher_item_loop(st, Tail(scene_items), scene_name, source_name, visible, F)
             ELSE IF ~ok
             THEN [st EXCEPT !.calls = Append(@, SetSceneItemEnabled(scene_name, id, visible, FALSE)),
                             !.raised = TRUE]
             ELSE Switcher_item_loop(
                    [st EXCEPT !.items = RemoteSetEnabled(@, scene_name, id, visible),
                               !.calls = Append(@, SetSceneItemEnabled(scene_name, id, visible, TRUE)),
                               !.changes_made = @ + 1],
                    Tail(scene_items), scene_name, source_name, visible, F)

\* Mutant: no inner try, what a scene raises reaches the outer handler.
Switcher_scene_except_none(st) == st

\* Mutant: the handler of a scene that raised drops the count made so far.
Switcher_scene_except_uncounted(st) == IF st.raised THEN [st EXCEPT !.raised = FALSE, !.changes_made = 0] ELSE st

\* The inner `try: ... except Exception: continue` around one scene: what was
\* raised inside the scene is dropped and the loop goes on.
Switcher_scene_except(st) == [st EXCEPT !.raised = FALSE]

RECURSIVE Switcher_scene_loop(_, _, _, _, _, _)
Switcher_scene_loop(st, all_scenes, source_name, visible, exclude_scenes, F) ==
    IF all_scenes = <<>> THEN st
    ELSE LET scene_name == Head(all_scenes)
             rest == Tail(all_scenes)
         IN  IF Switcher_skip_scene(scene_name, exclude_scenes)
             THEN Switcher_scene_loop(st, rest, source_name, visible, exclude_scenes, F)
             ELSE LET st1 ==
                        IF Raises(F, "GetSceneItemList", scene_name, 0)
                        THEN [st EXCEPT !.calls = Append(@, GetSceneItemList(scene_name, FALSE)),
                                        !.raised = TRUE]
                        ELSE Switcher_item_loop(
                                [st EXCEPT !.calls = Append(@, GetSceneItemList(scene_name, TRUE))],
                                st.items[scene_name], scene_name, source_name, visible, F)
                      st2 == Switcher_scene_except(st1)
                  IN  IF st2.raised THEN st2
                      ELSE Switcher_scene_loop(st2, rest, source_name, visible, exclude_scenes, F)

\* Mutant: a failed scene-list fetch is fetched again and the call goes on.
Switcher_set_source_visibility_global_retry(ws, its, scs, source_name, visible, exclude_scenes, F) ==
    IF ws = "None" THEN Outcome(its, <<>>, FALSE, 0)
    ELSE IF source_name = NoName THEN Outcome(its, <<>>, FALSE, 0)
    ELSE LET first == IF Raises(F, "GetSceneList", NoName, 0)
                      THEN <<GetSceneList(FALSE), GetSceneList(TRUE)>>
                      ELSE <<GetSceneList(TRUE)>>
             st == Switcher_scene_loop([Frame(its) EXCEPT !.calls = first],
                                       scs, source_name, visible, exclude_scenes, F)
         IN  Outcome(st.items, st.calls, ~st.raised /\ st.changes_made > 0, st.changes_made)

Switcher_set_source_visibility_global(ws, its, scs, source_name, visible, exclude_scenes, F) ==
    IF ws = "None" THEN Outcome(its, <<>>, FALSE, 0)
    ELSE IF source_name = NoName THEN Outcome(its, <<>>, FALSE, 0)
    ELSE IF Raises(F, "GetSceneList", NoName, 0)
    THEN Outcome(its, <<GetSceneList(FALSE)>>, FALSE, 0)
    ELSE LET st == Switcher_scene_loop([Frame(its) EXCEPT !.calls = <<GetSceneList(TRUE)>>],
                                       scs, source_name, visible, exclude_scenes, F)
         IN  Outcome(st.items, st.calls, ~st.raised /\ st.changes_made > 0, st.changes_made)

-----------------------------------------------------------------------------
(* The scene graphs and the requests that can fail *)

SourceNames == {"Cam", "Other"}

SceneIndex(scs, scene_name) == CHOOSE i \in 1..Len(scs) : scs[i] = scene_name

\* Item ids are scoped to their scene: the k-th item of the i-th scene has id
\* k + i - 1, so one id names different items in different scenes.
ItemId(scs, scene_name, k) == k + SceneIndex(scs, scene_name) - 1

\* The item lists of n items a scene can hold.
ItemLists(scs, scene_name, n) ==
    { [k \in 1..n |-> [sourceName |-> nm[k],
                       sceneItemId |-> ItemId(scs, scene_name, k),
                       sceneItemEnabled |-> en[k]]] :
        nm \in [1..n -> SourceNames], en \in [1..n -> BOOLEAN] }

SceneSet(scs) == { scs[i] : i \in 1..Len(scs) }

\* Every request a call of set_source_visibility_global can address.
Targets(scs, its) ==
    {Target("GetSceneList", NoName, 0)}
    \cup { Target("GetSceneItemList", s, 0) : s \in SceneSet(scs) }
    \cup UNION { { Target("SetSceneItemEnabled", s, its[s][k].sceneItemId) :
                     k \in DOMAIN its[s] } : s \in SceneSet(scs) }

\* No request fails, or one does.
Faults(scs, its) == {{}} \cup { {t} : t \in Targets(scs, its) }

\* One call as the log keeps it; the exclusion is kept as a set of scene names.
SyncRecord(impl, source_name, visible, exclude, r) ==
    [impl |-> impl, source_name |-> source_name, visible |-> visible,
     exclude |-> exclude, result |-> r.result, changes_made |-> r.changes_made]

AsSet(exclude_scene) == IF exclude_scene = NoName THEN {} ELSE {exclude_scene}

AllOk(cs) == \A i \in 1..Len(cs) : cs[i].ok

-----------------------------------------------------------------------------
(* What the run loops share: configuration, scene graph, clock, call sequences *)

\* The configurations main() lets through: obs_host, obs_port and
\* monitor_source_name are present; a name can be empty or missing (NoName).
Configs ==
    [show_source_name : {NoName, "Overlay"},
     hide_source_name : {NoName, "Idle"},
     detection_scene_name : {NoName, "Monitor"},
     monitor_source_name : {NoName, "Webcam"},
     show_preview : BOOLEAN]

RunScenes == <<"Monitor", "Main">>

RunLayout == <<"Overlay", "Idle">>

\* Both scenes hold both sources, with any enabled flags.
RunGraphs ==
    { [s \in SceneSet(RunScenes) |->
          [k \in 1..Len(RunLayout) |->
              [sourceName |-> RunLayout[k],
               sceneItemId |-> ItemId(RunScenes, s, k),
               sceneItemEnabled |-> en[s][k]]]] :
        en \in [SceneSet(RunScenes) -> [1..Len(RunLayout) -> BOOLEAN]] }

\* time.time(): a reading later than the stored one, up to MaxTime.
Now(stored) == IF stored < MaxTime THEN stored + 1 ELSE MaxTime

GetVersion(ok) == Request("GetVersion", NoName, 0, FALSE, ok)

GetSourceScreenshot(ok) == Request("GetSourceScreenshot", NoName, 0, FALSE, ok)

\* One set_source_visibility_global call to make.
Job(source_name, visible, exclude) ==
    [source_name |-> source_name, visible |-> visible, exclude |-> exclude]

\* Mutant: a call is made for a target whether it is named or not.
IfSet_always(name, job) == <<job>>

\* `if name: set_source_visibility_global(name, ...)`
IfSet(name, job) == IF name # NoName THEN <<job>> ELSE <<>>

CallSync(impl, ws, its, scs, job, F) ==
    CASE impl = "daemon" ->
           Daemon_set_source_visibility_global(ws, its, scs, job.source_name,
                                               job.visible, job.exclude, F)
      [] impl = "native" ->
           Native_set_source_visibility_global(ws, its, scs, job.source_name,
                                               job.visible, job.exclude, F)
      [] OTHER ->
           Switcher_set_source_visibility_global(ws, its, scs, job.source_name,
                                                 job.visible, job.exclude, F)

\* The calls of jobs made one after the other, each on what the one before left;
\* acc holds the items, the requests and the calls so far.
RECURSIVE RunSyncs(_, _, _, _, _, _)
RunSyncs(impl, acc, ws, scs, jobs, F) ==
    IF jobs = <<>> THEN acc
    ELSE LET job == Head(jobs)
             r == CallSync(impl, ws, acc.items, scs, job, F)
         IN  RunSyncs(impl,
                      [items |-> r.items,
                       calls |-> acc.calls \o r.calls,
                       syncs |-> Append(acc.syncs,
                                   SyncRecord(impl, job.source_name, job.visible,
                                      IF impl = "switcher" THEN job.exclude
                                      ELSE AsSet(job.exclude), r))],
                      ws, scs, Tail(jobs), F)

-----------------------------------------------------------------------------
(* FaceDetectionDaemon: connection handling *)

\* connect_obs(): a handle is held after a successful connect only.
Daemon_connect_obs(connect_ok) == IF connect_ok THEN "obsws" ELSE "None"

\* Mutant: the reduced rate starts from the thirteenth failure.
Daemon_connect_log_late(attempts, connect_ok) ==
    IF connect_ok THEN [reconnect_attempts |-> 0, level |-> "info"]
    ELSE [reconnect_attempts |-> attempts + 1,
          level |-> IF attempts + 1 <= 3 THEN "error"
                    ELSE IF (attempts + 1) % 12 = 1 THEN "warning"
                    ELSE "none"]

\* connect_obs(), its counter and its log line: a connect that succeeds logs
\* at info level and sets reconnect_attempts to 0 (lines 58-59); one that
\* fails adds one and logs at error level up to the third failure, at warning
\* level on every twelfth, else not at all (lines 62-67).
Daemon_connect_log(attempts, connect_ok) ==
    IF connect_ok THEN [reconnect_attempts |-> 0, level |-> "info"]
    ELSE [reconnect_attempts |-> attempts + 1,
          level |-> IF attempts + 1 <= 3 THEN "error"
                    ELSE IF (attempts + 1) % 12 = 0 THEN "warning"
                    ELSE "none"]

\* Mutant: the handle is kept after disconnect().
Daemon_disconnect_obs_keeps(ws) == ws

\* disconnect_obs(): whatever disconnect() does, no handle is held after it.
Daemon_disconnect_obs(ws) == "None"

\* Mutant: a failed GetVersion is not noticed.
Daemon_is_obs_active_always(ws, version_ok) ==
    IF ws = "None" THEN [result |-> FALSE, obs_ws |-> ws, calls |-> <<>>]
    ELSE [result |-> TRUE, obs_ws |-> ws, calls |-> <<GetVersion(version_ok)>>]

\* Mutant: the probe trusts the handle and sends nothing.
Daemon_is_obs_active_unasked(ws, version_ok) ==
    [result |-> ws # "None", obs_ws |-> ws, calls |-> <<>>]

\* is_obs_active(): False without a handle; else GetVersion, and on failure
\* the handle is dropped.
Daemon_is_obs_active(ws, version_ok) ==
    IF ws = "None" THEN [result |-> FALSE, obs_ws |-> ws, calls |-> <<>>]
    ELSE IF version_ok THEN [result |-> TRUE, obs_ws |-> ws, calls |-> <<GetVersion(TRUE)>>]
    ELSE [result |-> FALSE, obs_ws |-> Daemon_disconnect_obs(ws),
          calls |-> <<GetVersion(FALSE)>>]

-----------------------------------------------------------------------------
(* FaceDetectionDaemon.active_mode and run *)

Daemon_max_consecutive_errors == 5

\* Mutant: a failed capture is not counted.
Daemon_consecutive_errors_uncounted(errors, frame_ok) == IF frame_ok THEN 0 ELSE errors

\* `consecutive_errors += 1` when the frame is None (line 253), and
\* `consecutive_errors = 0` after a frame was captured (line 260).
Daemon_consecutive_errors(errors, frame_ok) == IF frame_ok THEN 0 ELSE errors + 1

\* Mutant: a runtime error of the loop leaves active_mode() as an exception.
Daemon_active_mode_except_reraises == "raise"

\* `except Exception` of active_mode() (lines 303-307): a runtime error in the
\* loop is logged and active_mode() returns False.
Daemon_active_mode_except == "False"

\* Mutant: every poll cycle is taken for a transition.
Daemon_state_changed_always(current_face_detected, stored) == TRUE

\* `if current_face_detected != self.face_detected:`
Daemon_state_changed(current_face_detected, stored) == current_face_detected # stored

\* detect_face(): an error inside is caught and gives False.
Daemon_detect_face(detect) == detect = "face"

\* Mutant: the show target is hidden in the detection scene too.
Daemon_transition_jobs_everywhere(cfg, detected) ==
    IF detected
    THEN IfSet(cfg.show_source_name, Job(cfg.show_source_name, TRUE, NoName))
         \o IfSet(cfg.hide_source_name, Job(cfg.hide_source_name, FALSE, NoName))
    ELSE IfSet(cfg.show_source_name, Job(cfg.show_source_name, FALSE, NoName))
         \o IfSet(cfg.hide_source_name, Job(cfg.hide_source_name, TRUE, NoName))

\* Mutant: the hide target is synchronized first.
Daemon_transition_jobs_hide_first(cfg, detected) ==
    IF detected
    THEN IfSet(cfg.hide_source_name, Job(cfg.hide_source_name, FALSE, NoName))
         \o IfSet(cfg.show_source_name, Job(cfg.show_source_name, TRUE, NoName))
    ELSE IfSet(cfg.hide_source_name, Job(cfg.hide_source_name, TRUE, NoName))
         \o IfSet(cfg.show_source_name,
                  Job(cfg.show_source_name, FALSE, cfg.detection_scene_name))

\* The calls on a transition (lines 270-288).
Daemon_transition_jobs(cfg, detected) ==
    IF detected
    THEN IfSet(cfg.show_source_name, Job(cfg.show_source_name, TRUE, NoName))
         \o IfSet(cfg.hide_source_name, Job(cfg.hide_source_name, FALSE, NoName))
    ELSE IfSet(cfg.show_source_name,
               Job(cfg.show_source_name, FALSE, cfg.detection_scene_name))
         \o IfSet(cfg.hide_source_name, Job(cfg.hide_source_name, TRUE, NoName))

\* Mutant: the liveness branch makes no reset call.
Daemon_reset_jobs_none(cfg) == <<>>

\* The calls that reset the sources to their default state (lines 241-245).
Daemon_reset_jobs(cfg) ==
    IfSet(cfg.show_source_name, Job(cfg.show_source_name, FALSE, NoName))
    \o IfSet(cfg.hide_source_name, Job(cfg.hide_source_name, TRUE, NoName))

\* Mutant: run() goes back to standby_mode() without disconnecting.
Daemon_after_active_keeps(returned, ws) == ws

\* What active_mode() returning does in run(): after True the loop goes to
\* standby_mode(); after False or None (`not None`) it disconnects first.
Daemon_after_active(returned, ws) ==
    IF returned = "True" THEN ws ELSE Daemon_disconnect_obs(ws)

\* Where run() is after active_mode(): still inside it while the loop runs; in
\* standby_mode() again after any return value; an exception that leaves
\* active_mode() is caught by run()'s `except Exception` ("Fatal error in
\* daemon") and run() ends through its finally clause.
Daemon_run_after(returned) ==
    CASE returned = "running" -> "active"
      [] returned = "raise" -> "stopped"
      [] OTHER -> "standby"

\* The preview window: shown only with show_preview; "q" breaks out of the
\* loop (active_mode returns None), an error in cv2 is caught (returns False).
Daemon_preview_keys(cfg) == IF cfg.show_preview THEN {"none", "q", "error"} ELSE {"none"}

\* One iteration of the loop of active_mode(), with what run() does when
\* active_mode() returns.  in: version_ok, shot_ok, detect, F, key.
Daemon_active_iteration(cfg, ws, stored, ldt, errors, its, scs, in) ==
    LET probe == Daemon_is_obs_active(ws, in.version_ok)
        acc0 == [items |-> its, calls |-> probe.calls, syncs |-> <<>>]
        acc1 == [acc0 EXCEPT !.calls = Append(@, GetSourceScreenshot(TRUE))]
        current == Daemon_detect_face(in.detect)
        changed == Daemon_state_changed(current, stored)
        rs == RunSyncs("daemon", IF probe.result THEN acc1 ELSE acc0, probe.obs_ws, scs,
                       IF ~probe.result THEN Daemon_reset_jobs(cfg)
                       ELSE IF changed THEN Daemon_transition_jobs(cfg, current)
                       ELSE <<>>, in.F)
    IN
    IF ~probe.result
    THEN     [pc |-> "standby", obs_ws |-> Daemon_after_active("True", probe.obs_ws),
              face_detected |-> FALSE, last_detection_time |-> ldt,
              consecutive_errors |-> errors, items |-> rs.items,
              syncs |-> rs.syncs, calls |-> rs.calls,
              event |-> "none", step |-> "exit_probe", frame |-> "none"]
    ELSE IF ~in.shot_ok
    THEN LET shot == Append(probe.calls, GetSourceScreenshot(FALSE))
         IN  IF Daemon_consecutive_errors(errors, FALSE) >= Daemon_max_consecutive_errors
             THEN [pc |-> "standby", obs_ws |-> Daemon_after_active("False", probe.obs_ws),
                   face_detected |-> stored, last_detection_time |-> ldt,
                   consecutive_errors |-> Daemon_consecutive_errors(errors, FALSE),
                   items |-> its,
                   syncs |-> <<>>, calls |-> shot,
                   event |-> "none", step |-> "exit_capture", frame |-> "failed"]
             ELSE [pc |-> "active", obs_ws |-> probe.obs_ws,
                   face_detected |-> stored, last_detection_time |-> ldt,
                   consecutive_errors |-> Daemon_consecutive_errors(errors, FALSE),
                   items |-> its,
                   syncs |-> <<>>, calls |-> shot,
                   event |-> "none", step |-> "capture", frame |-> "failed"]
    ELSE LET returned == CASE in.key = "q" -> "None"
                           [] in.key = "error" -> Daemon_active_mode_except
                           [] OTHER -> "running"
         IN  [pc |-> Daemon_run_after(returned),
              obs_ws |-> IF returned = "running" THEN probe.obs_ws
                         ELSE Daemon_after_active(returned, probe.obs_ws),
              face_detected |-> IF changed THEN current ELSE stored,
              last_detection_time |-> IF changed THEN Now(ldt) ELSE ldt,
              consecutive_errors |-> Daemon_consecutive_errors(errors, TRUE),
              items |-> rs.items,
              syncs |-> rs.syncs, calls |-> rs.calls,
              event |-> IF ~changed THEN "none"
                        ELSE IF current THEN "present" ELSE "absent",
              step |-> CASE in.key = "q" -> "exit_quit"
                         [] in.key = "error" ->
                              IF returned = "raise" THEN "exit_fatal" ELSE "exit_error"
                         [] OTHER -> "polled",
              frame |-> in.detect]

\* Mutant: active_mode() finds no monitor source whatever is configured.
Daemon_monitor_source_unread(cfg) == NoName

\* `monitor_source = self.config.get('monitor_source_name')` (line 219), which
\* active_mode() tests with `if not monitor_source:`.
Daemon_monitor_source(cfg) == cfg.monitor_source_name

\* One iteration of the loop of standby_mode(); when it returns True, run()
\* calls active_mode(), which returns False at once without a
\* monitor_source_name and else reaches its loop with consecutive_errors = 0.
Daemon_standby_iteration(cfg, ws, stored, ldt, errors, its, in) ==
    LET ws1 == IF ws = "None" THEN Daemon_connect_obs(in.connect_ok) ELSE ws
        probe == Daemon_is_obs_active(ws1, in.version_ok)
        base == [pc |-> "standby", obs_ws |-> probe.obs_ws,
                 face_detected |-> stored, last_detection_time |-> ldt,
                 consecutive_errors |-> errors, items |-> its,
                 syncs |-> <<>>, calls |-> probe.calls,
                 event |-> "none", step |-> "standby", frame |-> "none"]
    IN  IF ~(ws1 # "None" /\ probe.result) THEN base
        ELSE IF Daemon_monitor_source(cfg) = NoName
        THEN [base EXCEPT !.obs_ws = Daemon_after_active("False", probe.obs_ws),
                          !.step = "config"]
        ELSE [base EXCEPT !.pc = "active", !.consecutive_errors = 0,
                          !.step = "entered"]

NoneEmitted == [last |-> "none", prev |-> "none", reset |-> FALSE, between |-> FALSE]

\* The last transition emitted so far and the one before it; reset: the
\* liveness branch of active_mode() has set face_detected = False since the
\* last one; between: it did so between the two.
Emitted(prior, ev, st) ==
    IF ev # "none"
    THEN [last |-> ev, prev |-> prior.last, reset |-> FALSE, between |-> prior.reset]
    ELSE IF st = "exit_probe" THEN [prior EXCEPT !.reset = TRUE]
    ELSE prior

\* The state a step of a run loop leaves.
Apply(result) ==
    \E post \in {result} :
    /\ pc' = post.pc
    /\ obs_ws' = post.obs_ws
    /\ face_detected' = post.face_detected
    /\ last_detection_time' = post.last_detection_time
    /\ consecutive_errors' = post.consecutive_errors
    /\ items' = post.items
    /\ syncs' = post.syncs
    /\ calls' = post.calls
    /\ event' = post.event
    /\ step' = post.step
    /\ frame' = post.frame
    /\ emitted' = Emitted(emitted, post.event, post.step)
    /\ UNCHANGED <<reconnect_attempts, variant, config, scenes, items0>>

\* The detector results a cycle can see: any, or the next of the script.
Detections == {"face", "noface", "error"}

Scripted(detects) == IF script = <<>> THEN detects ELSE {Head(script)}

Consume == script' = IF script = <<>> THEN script ELSE Tail(script)

InitDaemon ==
    /\ variant = "daemon"
    /\ camera = "None"
    /\ config \in Configs
    /\ pc = "standby"
    /\ obs_ws = "None"
    /\ face_detected = FALSE
    /\ last_detection_time = 0
    /\ consecutive_errors = 0
    /\ scenes = RunScenes
    /\ items \in RunGraphs
    /\ items0 = <<>>
    /\ syncs = <<>>
    /\ calls = <<>>
    /\ event = "none"
    /\ step = "init"
    /\ frame = "none"
    /\ script = <<>>
    /\ emitted = NoneEmitted
    /\ reconnect_attempts = 0

\* What one iteration of standby_mode() can meet: the connection attempt, made
\* only without a handle, and GetVersion, each with an outcome of oks.
Daemon_standby_inputs(oks, ws) ==
    { [connect_ok |-> c, version_ok |-> v] :
        c \in (IF ws = "None" THEN oks ELSE {TRUE}), v \in oks } \
    { [connect_ok |-> FALSE, version_ok |-> TRUE] }

\* What one iteration of active_mode() can meet: GetVersion and the screenshot
\* with an outcome of oks, a detector result, a key, and, when a transition
\* or the reset pass makes calls, the set of requests that fail (none, one,
\* or every one).
Daemon_active_inputs(oks, detects, faults, keys, stored) ==
    LET quiet == [version_ok |-> FALSE, shot_ok |-> FALSE, detect |-> "noface",
                  F |-> {}, key |-> "none"]
        failed == { [quiet EXCEPT !.F = F] : F \in faults \cup {UNION faults} }
    IN  IF TRUE \notin oks THEN failed
        ELSE (IF FALSE \in oks THEN failed ELSE {})
             \cup { [quiet EXCEPT !.version_ok = TRUE] : ok \in oks \ {TRUE} }
             \cup UNION { { [version_ok |-> TRUE, shot_ok |-> TRUE, detect |-> d,
                             F |-> F, key |-> k] :
                             F \in (IF Daemon_state_changed(Daemon_detect_face(d), stored)
                                    THEN faults ELSE {{}}),
                             k \in keys } : d \in detects }

\* standby_mode(), one iteration.
DaemonStandby(oks) ==
    /\ variant = "daemon"
    /\ pc = "standby"
    /\ \E in \in Daemon_standby_inputs(oks, obs_ws) :
         Apply(Daemon_standby_iteration(config, obs_ws, face_detected,
                  last_detection_time, consecutive_errors, items, in))
    /\ UNCHANGED <<camera, script>>

\* active_mode(), one iteration; a cycle that reaches the detector takes the
\* next result of the script.
DaemonActive(oks, detects, faults, keys) ==
    /\ variant = "daemon"
    /\ pc = "active"
    /\ \E in \in Daemon_active_inputs(oks, Scripted(detects), faults, keys, face_detected) :
         /\ Apply(Daemon_active_iteration(config, obs_ws, face_detected,
                     last_detection_time, consecutive_errors, items, scenes, in))
         /\ IF in.version_ok /\ in.shot_ok THEN Consume ELSE UNCHANGED script
    /\ UNCHANGED camera

\* KeyboardInterrupt in run(): the finally clause disconnects.
DaemonStop ==
    /\ variant = "daemon"
    /\ pc \in {"standby", "active"}
    /\ pc' = "stopped"
    /\ obs_ws' = Daemon_disconnect_obs(obs_ws)
    /\ syncs' = <<>>
    /\ calls' = <<>>
    /\ event' = "none"
    /\ step' = "stopped"
    /\ frame' = "none"
    /\ UNCHANGED <<reconnect_attempts, variant, config, camera, face_detected, last_detection_time,
                   consecutive_errors, scenes, items, script, items0, emitted>>

\* KeyboardInterrupt raised while `self.obs_ws.disconnect()` runs inside
\* `try: ... except: pass` (connect_obs lines 71-74, disconnect_obs lines
\* 81-85): the bare except swallows it and run() never sees it.  Every
\* iteration that ends in standby has made that call: after a failed connect,
\* after a failed GetVersion, and after active_mode() returned False or None.
DaemonStopSwallowed ==
    /\ variant = "daemon"
    /\ pc = "standby"
    /\ step \notin {"init", "stop_swallowed"}
    /\ syncs' = <<>>
    /\ calls' = <<>>
    /\ event' = "none"
    /\ step' = "stop_swallowed"
    /\ frame' = "none"
    /\ UNCHANGED <<reconnect_attempts, variant, config, pc, obs_ws, camera, face_detected,
                   last_detection_time, consecutive_errors, scenes, items,
                   script, items0, emitted>>

NextDaemon ==
    \/ DaemonStandby(BOOLEAN)
    \/ DaemonActive(BOOLEAN, Detections, Faults(scenes, items), Daemon_preview_keys(config))
    \/ DaemonStop
    \/ DaemonStopSwallowed

SpecDaemon == InitDaemon /\ [][NextDaemon]_vars

\* The daemon started with a show target only, no preview window and every
\* item disabled; monitor_source_name is present, empty or not.
InitDaemonFair ==
    /\ InitDaemon
    /\ config.show_source_name # NoName
    /\ config.hide_source_name = NoName
    /\ config.detection_scene_name = NoName
    /\ ~config.show_preview
    /\ \A s \in DOMAIN items : \A k \in DOMAIN items[s] : ~items[s][k].sceneItemEnabled

\* The daemon with the scheduling of run(): its `while True` loops never block,
\* every sleep ends, so an iteration that can go on with a remote that answers
\* is eventually taken.
NextDaemonFair ==
    \/ DaemonStandby(BOOLEAN)
    \/ DaemonActive(BOOLEAN, Detections, {{}}, {"none"})
    \/ DaemonStop
    \/ DaemonStopSwallowed

SpecDaemonFair ==
    /\ InitDaemonFair
    /\ [][NextDaemonFair]_vars
    /\ WF_vars(DaemonStandby({TRUE}))
    /\ WF_vars(DaemonActive({TRUE}, Detections, {{}}, {"none"}))

-----------------------------------------------------------------------------
(* FaceDetectionSwitcher.run *)

\* disconnect_obs(): disconnects a held handle and keeps the reference.
Switcher_disconnect_obs(ws) == IF ws = "None" THEN ws ELSE "closed"

\* Mutant: every poll cycle is taken for a transition.
Switcher_state_changed_always(current_face_detected, stored) == TRUE

\* `if current_face_detected != self.face_detected:`
Switcher_state_changed(current_face_detected, stored) == current_face_detected # stored

\* `exclude_scenes = []; if detection_scene: exclude_scenes.append(detection_scene)`
Switcher_exclude_scenes(cfg) ==
    IF cfg.detection_scene_name # NoName THEN {cfg.detection_scene_name} ELSE {}

\* The calls on a transition (lines 207-216): only show_source_name is used.
Switcher_transition_jobs(cfg, detected) ==
    IF detected
    THEN IfSet(cfg.show_source_name, Job(cfg.show_source_name, TRUE, {}))
    ELSE IfSet(cfg.show_source_name,
               Job(cfg.show_source_name, FALSE, Switcher_exclude_scenes(cfg)))

Switcher_preview_keys(cfg) == IF cfg.show_preview THEN {"none", "q", "error"} ELSE {"none"}

\* run() up to its loop: connect, then the monitor_source_name check.
Switcher_run_start(cfg, ws, stored, ldt, errors, its, in) ==
    LET base == [pc |-> "stopped", obs_ws |-> ws,
                 face_detected |-> stored, last_detection_time |-> ldt,
                 consecutive_errors |-> errors, items |-> its,
                 syncs |-> <<>>, calls |-> <<>>,
                 event |-> "none", step |-> "no_connection", frame |-> "none"]
    IN  IF ~in.connect_ok THEN [base EXCEPT !.obs_ws = "closed"]
        ELSE IF cfg.monitor_source_name = NoName
        THEN [base EXCEPT !.obs_ws = Switcher_disconnect_obs("obsws"), !.step = "config"]
        ELSE [base EXCEPT !.pc = "polling", !.obs_ws = "obsws", !.step = "entered"]

\* One iteration of the loop of run(), with the except and finally clauses when
\* the loop is left.  in: shot_ok, detect, F, key.
Switcher_run_iteration(cfg, ws, stored, ldt, errors, its, scs, in) ==
    LET base == [pc |-> "polling", obs_ws |-> ws,
                 face_detected |-> stored, last_detection_time |-> ldt,
                 consecutive_errors |-> errors, items |-> its,
                 syncs |-> <<>>, calls |-> <<>>,
                 event |-> "none", step |-> "polled", frame |-> "none"]
    IN
    IF ~in.shot_ok
    THEN [base EXCEPT !.calls = <<GetSourceScreenshot(FALSE)>>,
                      !.step = "capture", !.frame = "failed"]
    ELSE IF in.detect = "error"
    THEN [base EXCEPT !.calls = <<GetSourceScreenshot(TRUE)>>,
                      !.pc = "stopped", !.obs_ws = Switcher_disconnect_obs(ws),
                      !.step = "exit_error", !.frame = "error"]
    ELSE LET current == in.detect = "face"
             changed == Switcher_state_changed(current, stored)
             acc1 == [items |-> its, calls |-> <<GetSourceScreenshot(TRUE)>>, syncs |-> <<>>]
             rs == RunSyncs("switcher", acc1, ws, scs,
                            IF changed THEN Switcher_transition_jobs(cfg, current) ELSE <<>>,
                            in.F)
             left == in.key # "none"
         IN  [pc |-> IF left THEN "stopped" ELSE "polling",
              obs_ws |-> IF left THEN Switcher_disconnect_obs(ws) ELSE ws,
              face_detected |-> IF changed THEN current ELSE stored,
              last_detection_time |-> IF changed THEN Now(ldt) ELSE ldt,
              consecutive_errors |-> errors, items |-> rs.items,
              syncs |-> rs.syncs, calls |-> rs.calls,
              event |-> IF ~changed THEN "none"
                        ELSE IF current THEN "present" ELSE "absent",
              step |-> CASE in.key = "q" -> "exit_quit"
                         [] in.key = "error" -> "exit_error"
                         [] OTHER -> "polled",
              frame |-> in.detect]

-----------------------------------------------------------------------------
(* FaceDetectionNative.run *)

Native_max_consecutive_errors == 10

\* Mutant: a captured frame does not reset the counter.
Native_consecutive_errors_kept(errors, frame_ok) == IF frame_ok THEN errors ELSE errors + 1

\* `consecutive_errors += 1` when the read fails (line 204), and
\* `consecutive_errors = 0` after a frame was read (line 214).
Native_consecutive_errors(errors, frame_ok) == IF frame_ok THEN 0 ELSE errors + 1

\* disconnect_obs(): disconnects a held handle and keeps the reference.
Native_disconnect_obs(ws) == IF ws = "None" THEN ws ELSE "closed"

\* Mutant: the camera object is left as it is.
Native_release_camera_keeps(cam) == cam

\* release_camera(): releases a camera object that is held.
Native_release_camera(cam) == IF cam = "None" THEN cam ELSE "released"

\* Mutant: every frame that is read is taken for a transition.
Native_state_changed_always(current_face_detected, stored) == TRUE

\* `if current_face_detected != self.face_detected:`
Native_state_changed(current_face_detected, stored) == current_face_detected # stored

\* Mutant: an error inside the detector counts as a face.
Native_detect_face_error_present(detect) == detect # "noface"

\* detect_face(): an error inside is caught and gives False.
Native_detect_face(detect) == detect = "face"

\* Mutant: the hide target is shown outside the detection scene only.
Native_transition_jobs_hide_excluded(cfg, detected) ==
    IF detected
    THEN IfSet(cfg.show_source_name, Job(cfg.show_source_name, TRUE, NoName))
         \o IfSet(cfg.hide_source_name, Job(cfg.hide_source_name, FALSE, NoName))
    ELSE IfSet(cfg.show_source_name,
               Job(cfg.show_source_name, FALSE, cfg.detection_scene_name))
         \o IfSet(cfg.hide_source_name,
                  Job(cfg.hide_source_name, TRUE, cfg.detection_scene_name))

\* The calls on a transition (lines 224-242).
Native_transition_jobs(cfg, detected) ==
    IF detected
    THEN IfSet(cfg.show_source_name, Job(cfg.show_source_name, TRUE, NoName))
         \o IfSet(cfg.hide_source_name, Job(cfg.hide_source_name, FALSE, NoName))
    ELSE IfSet(cfg.show_source_name,
               Job(cfg.show_source_name, FALSE, cfg.detection_scene_name))
         \o IfSet(cfg.hide_source_name, Job(cfg.hide_source_name, TRUE, NoName))

Native_preview_keys(cfg) == IF cfg.show_preview THEN {"none", "q", "error"} ELSE {"none"}

\* run() up to its loop: the camera first, then the connection.
Native_run_start(cfg, stored, ldt, its, in) ==
    LET base == [pc |-> "stopped", obs_ws |-> "None", camera |-> "unopened",
                 face_detected |-> stored, last_detection_time |-> ldt,
                 consecutive_errors |-> 0, items |-> its,
                 syncs |-> <<>>, calls |-> <<>>,
                 event |-> "none", step |-> "no_camera", frame |-> "none"]
    IN  IF ~in.camera_ok THEN base
        ELSE IF ~in.connect_ok
        THEN [base EXCEPT !.obs_ws = "closed", !.camera = Native_release_camera("open"),
                          !.step = "no_connection"]
        ELSE [base EXCEPT !.pc = "polling", !.obs_ws = "obsws", !.camera = "open",
                          !.step = "entered"]

\* One iteration of the loop of run(), with the except and finally clauses when
\* the loop is left.  in: read_ok, detect, F, key.
Native_run_iteration(cfg, ws, cam, stored, ldt, errors, its, scs, in) ==
    LET base == [pc |-> "polling", obs_ws |-> ws, camera |-> cam,
                 face_detected |-> stored, last_detection_time |-> ldt,
                 consecutive_errors |-> errors, items |-> its,
                 syncs |-> <<>>, calls |-> <<>>,
                 event |-> "none", step |-> "polled", frame |-> "none"]
    IN
    IF ~in.read_ok
    THEN IF Native_consecutive_errors(errors, FALSE) >= Native_max_consecutive_errors
         THEN [base EXCEPT !.pc = "stopped",
                           !.consecutive_errors = Native_consecutive_errors(errors, FALSE),
                           !.obs_ws = Native_disconnect_obs(ws),
                           !.camera = Native_release_camera(cam),
                           !.step = "exit_capture", !.frame = "failed"]
         ELSE [base EXCEPT !.consecutive_errors = Native_consecutive_errors(errors, FALSE),
                           !.step = "capture", !.frame = "failed"]
    ELSE LET current == Native_detect_face(in.detect)
             changed == Native_state_changed(current, stored)
             acc1 == [items |-> its, calls |-> <<>>, syncs |-> <<>>]
             rs == RunSyncs("native", acc1, ws, scs,
                            IF changed THEN Native_transition_jobs(cfg, current) ELSE <<>>,
                            in.F)
             left == in.key # "none"
         IN  [pc |-> IF left THEN "stopped" ELSE "polling",
              obs_ws |-> IF left THEN Native_disconnect_obs(ws) ELSE ws,
              camera |-> IF left THEN Native_release_camera(cam) ELSE cam,
              face_detected |-> IF changed THEN current ELSE stored,
              last_detection_time |-> IF changed THEN Now(ldt) ELSE ldt,
              consecutive_errors |-> Native_consecutive_errors(errors, TRUE),
              items |-> rs.items,
              syncs |-> rs.syncs, calls |-> rs.calls,
              event |-> IF ~changed THEN "none"
                        ELSE IF current THEN "present" ELSE "absent",
              step |-> CASE in.key = "q" -> "exit_quit"
                         [] in.key = "error" -> "exit_error"
                         [] OTHER -> "polled",
              frame |-> in.detect]

-----------------------------------------------------------------------------
(* The switcher and the native program as state machines *)

InitRun(v) ==
    /\ variant = v
    /\ camera = "None"
    /\ config \in Configs
    /\ pc = "start"
    /\ obs_ws = "None"
    /\ face_detected = FALSE
    /\ last_detection_time = 0
    /\ consecutive_errors = 0
    /\ scenes = RunScenes
    /\ items \in RunGraphs
    /\ items0 = <<>>
    /\ syncs = <<>>
    /\ calls = <<>>
    /\ event = "none"
    /\ step = "init"
    /\ frame = "none"
    /\ script = <<>>
    /\ emitted = NoneEmitted
    /\ reconnect_attempts = 0

SwitcherStart ==
    /\ variant = "switcher"
    /\ pc = "start"
    /\ \E connect_ok \in BOOLEAN :
         Apply(Switcher_run_start(config, obs_ws, face_detected, last_detection_time,
                                  consecutive_errors, items, [connect_ok |-> connect_ok]))
    /\ UNCHANGED <<camera, script>>

\* What one iteration of the loop can meet: the screenshot, a detector result
\* (an error there ends run() before the preview), a key, and, when a
\* transition makes requests, the set of requests that fail.
Switcher_run_inputs(detects, faults, keys, stored) ==
    LET quiet == [shot_ok |-> FALSE, detect |-> "noface", F |-> {}, key |-> "none"]
    IN  { quiet }
        \cup UNION { { [shot_ok |-> TRUE, detect |-> d, F |-> F, key |-> k] :
                        F \in (IF d # "error" /\ Switcher_state_changed(d = "face", stored)
                               THEN faults ELSE {{}}),
                        k \in (IF d = "error" THEN {"none"} ELSE keys) } : d \in detects }

SwitcherPoll ==
    /\ variant = "switcher"
    /\ pc = "polling"
    /\ \E in \in Switcher_run_inputs(Detections, Faults(scenes, items),
                                      Switcher_preview_keys(config), face_detected) :
         Apply(Switcher_run_iteration(config, obs_ws, face_detected,
                  last_detection_time, consecutive_errors, items, scenes, in))
    /\ UNCHANGED <<camera, script>>

\* KeyboardInterrupt in the loop of run(): the finally clause disconnects.
SwitcherStop ==
    /\ variant = "switcher"
    /\ pc = "polling"
    /\ pc' = "stopped"
    /\ obs_ws' = Switcher_disconnect_obs(obs_ws)
    /\ syncs' = <<>>
    /\ calls' = <<>>
    /\ event' = "none"
    /\ step' = "stopped"
    /\ frame' = "none"
    /\ UNCHANGED <<reconnect_attempts, variant, config, camera, face_detected, last_detection_time,
                   consecutive_errors, scenes, items, script, items0, emitted>>

ApplyNative(result) ==
    \E native_post \in {result} :
        /\ camera' = native_post.camera
        /\ Apply(native_post)

\* What run() can meet before its loop: the camera, and the connection if the
\* camera opened.
Native_start_inputs ==
    { [camera_ok |-> c, connect_ok |-> o] : c, o \in BOOLEAN } \
    { [camera_ok |-> FALSE, connect_ok |-> TRUE] }

\* What one iteration of the loop can meet: the camera read, a detector
\* result, a key, and, when a transition makes requests, the set that fail.
Native_run_inputs(detects, faults, keys, stored) ==
    LET quiet == [read_ok |-> FALSE, detect |-> "noface", F |-> {}, key |-> "none"]
    IN  { quiet }
        \cup UNION { { [read_ok |-> TRUE, detect |-> d, F |-> F, key |-> k] :
                        F \in (IF Native_state_changed(Native_detect_face(d), stored)
                               THEN faults ELSE {{}}),
                        k \in keys } : d \in detects }

NativeStart ==
    /\ variant = "native"
    /\ pc = "start"
    /\ \E in \in Native_start_inputs :
         ApplyNative(Native_run_start(config, face_detected, last_detection_time, items, in))
    /\ UNCHANGED script

NativePoll ==
    /\ variant = "native"
    /\ pc = "polling"
    /\ \E in \in Native_run_inputs(Detections, Faults(scenes, items),
                                    Native_preview_keys(config), face_detected) :
         ApplyNative(Native_run_iteration(config, obs_ws, camera, face_detected,
                        last_detection_time, consecutive_errors, items, scenes, in))
    /\ UNCHANGED script

\* KeyboardInterrupt in the loop of run(): the finally clause releases and disconnects.
NativeStop ==
    /\ variant = "native"
    /\ pc = "polling"
    /\ pc' = "stopped"
    /\ obs_ws' = Native_disconnect_obs(obs_ws)
    /\ camera' = Native_release_camera(camera)
    /\ syncs' = <<>>
    /\ calls' = <<>>
    /\ event' = "none"
    /\ step' = "stopped"
    /\ frame' = "none"
    /\ UNCHANGED <<reconnect_attempts, variant, config, face_detected, last_detection_time,
                   consecutive_errors, scenes, items, script, items0, emitted>>

SpecSwitcher == InitRun("switcher") /\ [][SwitcherStart \/ SwitcherPoll \/ SwitcherStop]_vars

Init == InitDaemon \/ InitRun("switcher") \/ InitRun("native")

NextSwitcher == SwitcherStart \/ SwitcherPoll \/ SwitcherStop

NextNative == NativeStart \/ NativePoll \/ NativeStop

Next == NextDaemon \/ NextSwitcher \/ NextNative

Spec == Init /\ [][Next]_vars

-----------------------------------------------------------------------------
(* main() and load_config() of the three programs *)

\* A key that config/obs_config.json does not hold.
Absent == "absent"

\* What main() can find on disk: no file, a file json.load() fails on, or an
\* object in which every key is missing, present and empty, or present with a
\* value.
ConfigFiles ==
    { f \in [file : {"missing", "unreadable", "ok"},
              obs_host : {Absent, "localhost"},
              obs_port : {Absent, "4455"},
              monitor_source_name : {Absent, NoName, "Webcam"},
              show_source_name : {Absent, NoName, "Overlay"},
              hide_source_name : {Absent, NoName, "Idle"},
              detection_scene_name : {Absent, "Monitor"},
              show_preview : {FALSE}] :
        f.file # "ok" =>
            /\ f.obs_host = Absent
            /\ f.obs_port = Absent
            /\ f.monitor_source_name = Absent
            /\ f.show_source_name = Absent
            /\ f.hide_source_name = Absent
            /\ f.detection_scene_name = Absent }

\* load_config(): sys.exit(1) without the file and when reading it fails.
load_config(f) == IF f.file = "ok" THEN "loaded" ELSE "exit_1"

\* Mutant: the daemon does not ask for monitor_source_name.
Daemon_required_keys_short == {"obs_host", "obs_port"}

\* `required_keys` of the daemon's main().
Daemon_required_keys == {"obs_host", "obs_port", "monitor_source_name"}

\* `required_keys` of the switcher's main().
Switcher_required_keys == {"obs_host", "obs_port", "monitor_source_name"}

\* `required_keys` of the native program's main().
Native_required_keys == {"obs_host", "obs_port"}

required_keys(v) ==
    CASE v = "daemon" -> Daemon_required_keys
      [] v = "switcher" -> Switcher_required_keys
      [] OTHER -> Native_required_keys

\* `[key for key in required_keys if key not in config]`
missing_keys(v, f) == { key \in required_keys(v) : f[key] = Absent }

\* What the run loop reads with config.get(): a missing key gives None, which
\* every test of the loop treats as the empty name.
Get(f, key) == IF f[key] = Absent THEN NoName ELSE f[key]

Loaded(f) ==
    [show_source_name |-> Get(f, "show_source_name"),
     hide_source_name |-> Get(f, "hide_source_name"),
     detection_scene_name |-> Get(f, "detection_scene_name"),
     monitor_source_name |-> Get(f, "monitor_source_name"),
     show_preview |-> f.show_preview]

\* main(): load_config(), the required keys, a warning when neither target is
\* configured, then the object is built and run() is called.
main(v, f) ==
    IF load_config(f) = "exit_1" \/ missing_keys(v, f) # {}
    THEN [pc |-> "exited", step |-> "exit_1", config |-> f]
    ELSE [pc |-> IF v = "daemon" THEN "standby" ELSE "start",
          step |-> "init", config |-> Loaded(f)]

InitMain ==
    /\ variant \in {"daemon", "switcher", "native"}
    /\ camera = "None"
    /\ config \in ConfigFiles
    /\ pc = "main"
    /\ obs_ws = "None"
    /\ face_detected = FALSE
    /\ last_detection_time = 0
    /\ consecutive_errors = 0
    /\ scenes = RunScenes
    /\ items \in RunGraphs
    /\ \A s \in DOMAIN items : \A k \in DOMAIN items[s] : ~items[s][k].sceneItemEnabled
    /\ items0 = <<>>
    /\ syncs = <<>>
    /\ calls = <<>>
    /\ event = "none"
    /\ step = "main"
    /\ frame = "none"
    /\ script = <<>>
    /\ emitted = NoneEmitted
    /\ reconnect_attempts = 0

Main ==
    /\ pc = "main"
    /\ \E post \in {main(variant, config)} :
         /\ pc' = post.pc
         /\ step' = post.step
         /\ config' = post.config
    /\ UNCHANGED <<reconnect_attempts, variant, obs_ws, camera, face_detected, last_detection_time,
                   consecutive_errors, scenes, items, syncs, calls, event, frame,
                   script, items0, emitted>>

NextMain == Main \/ Next

SpecMain == InitMain /\ [][NextMain]_vars

-----------------------------------------------------------------------------
(* SpecE2E: the daemon on the end-to-end scenario of the specification *)

E2EConfig ==
    [show_source_name |-> "Overlay", hide_source_name |-> "Idle",
     detection_scene_name |-> "Monitor", monitor_source_name |-> "Webcam",
     show_preview |-> FALSE]

\* The detector results [false, false, true, true, false].
E2EScript == <<"noface", "noface", "face", "face", "noface">>

InitE2E ==
    /\ variant = "daemon"
    /\ camera = "None"
    /\ config = E2EConfig
    /\ pc = "standby"
    /\ obs_ws = "None"
    /\ face_detected = FALSE
    /\ last_detection_time = 0
    /\ consecutive_errors = 0
    /\ scenes = RunScenes
    /\ items \in RunGraphs
    /\ items0 = <<>>
    /\ syncs = <<>>
    /\ calls = <<>>
    /\ event = "none"
    /\ step = "init"
    /\ frame = "none"
    /\ script = E2EScript
    /\ emitted = NoneEmitted
    /\ reconnect_attempts = 0

\* No remote failure; the session polls while the script has results.
E2EPoll ==
    /\ script # <<>>
    /\ DaemonActive({TRUE}, Detections, {{}}, Daemon_preview_keys(config))

NextE2E == DaemonStandby({TRUE}) \/ E2EPoll \/ DaemonStop

SpecE2E == InitE2E /\ [][NextE2E]_vars

-----------------------------------------------------------------------------
(* SpecSync: set_source_visibility_global called on arbitrary scene graphs *)

InitSync ==
    /\ variant = "none"
    /\ camera = "None"
    /\ config = [show_source_name |-> NoName, hide_source_name |-> NoName,
                 detection_scene_name |-> NoName, monitor_source_name |-> NoName,
                 show_preview |-> FALSE]
    /\ pc = "sync"
    /\ obs_ws = "obsws"
    /\ face_detected = FALSE
    /\ last_detection_time = 0
    /\ consecutive_errors = 0
    /\ scenes = SyncScenes
    /\ \E la \in 0..MaxItems :
       \E lb \in 0..(MaxItems - la) :
       \E lc \in 0..(MaxItems - la - lb) :
       \E ia \in ItemLists(SyncScenes, "A", la),
          ib \in ItemLists(SyncScenes, "B", lb),
          ic \in ItemLists(SyncScenes, "C", lc) :
            items = ("A" :> ia @@ "B" :> ib @@ "C" :> ic)
    /\ items0 = items
    /\ syncs = <<>>
    /\ calls = <<>>
    /\ event = "none"
    /\ step = "init"
    /\ frame = "none"
    /\ script = <<>>
    /\ emitted = NoneEmitted
    /\ reconnect_attempts = 0

SyncFrame == UNCHANGED <<reconnect_attempts, variant, config, obs_ws, camera, face_detected, last_detection_time,
                         consecutive_errors, scenes, event, step, frame, script, items0,
                         emitted>>

Returned(prior, impl, source_name, visible, exclude, r, next_pc) ==
    /\ items' = r.items
    /\ calls' = r.calls
    /\ syncs' = Append(prior, SyncRecord(impl, source_name, visible, exclude, r))
    /\ pc' = next_pc
    /\ SyncFrame

DaemonSync ==
    /\ pc = "sync"
    /\ \E visible \in BOOLEAN, exclude_scene \in {NoName} \cup SceneSet(scenes),
          F \in Faults(scenes, items) :
         Returned(<<>>, "daemon", "Cam", visible, AsSet(exclude_scene),
                  Daemon_set_source_visibility_global(
                      obs_ws, items, scenes, "Cam", visible, exclude_scene, F),
                  "synced")

NativeSync ==
    /\ pc = "sync"
    /\ \E visible \in BOOLEAN, exclude_scene \in {NoName} \cup SceneSet(scenes),
          F \in Faults(scenes, items) :
         Returned(<<>>, "native", "Cam", visible, AsSet(exclude_scene),
                  Native_set_source_visibility_global(
                      obs_ws, items, scenes, "Cam", visible, exclude_scene, F),
                  "synced")

SwitcherSync ==
    /\ pc = "sync"
    /\ \E visible \in BOOLEAN, exclude_scenes \in SUBSET SceneSet(scenes),
          F \in Faults(scenes, items) :
         Returned(<<>>, "switcher", "Cam", visible, exclude_scenes,
                  Switcher_set_source_visibility_global(
                      obs_ws, items, scenes, "Cam", visible, exclude_scenes, F),
                  "synced")

\* A second call right after a first one in which no request failed: the same
\* source and exclusion, either flag, no request failing.
SyncAgain ==
    /\ pc = "synced"
    /\ AllOk(calls)
    /\ LET first == syncs[1] IN
       \E visible \in BOOLEAN :
         Returned(syncs, first.impl, first.source_name, visible, first.exclude,
            CallSync(first.impl, obs_ws, items, scenes,
                     Job(first.source_name, visible,
                         IF first.impl = "switcher" THEN first.exclude
                         ELSE IF first.exclude = {} THEN NoName
                         ELSE CHOOSE x \in first.exclude : TRUE), {}),
            "resynced")

NextSync == DaemonSync \/ NativeSync \/ SwitcherSync \/ SyncAgain

SpecSync == InitSync /\ [][NextSync]_vars

-----------------------------------------------------------------------------
(* SpecConnect: the connection attempts of the daemon and their log lines *)

\* self.max_reconnect_attempts, set in __init__ and read nowhere.
Daemon_max_reconnect_attempts == 10

\* The daemon as constructed, the remote with every item disabled.
InitConnect ==
    /\ InitDaemon
    /\ \A s \in DOMAIN items : \A k \in DOMAIN items[s] : ~items[s][k].sceneItemEnabled

ConnectFrame == UNCHANGED <<variant, config, camera, face_detected, last_detection_time,
                            consecutive_errors, scenes, items, syncs, event,
                            frame, script, items0, emitted>>

\* Mutant: standby_mode() returns False once max_reconnect_attempts connects
\* in a row have failed.
Daemon_standby_mode_returns_at_max(attempts, probed) ==
    IF probed THEN "True"
    ELSE IF attempts >= Daemon_max_reconnect_attempts THEN "False"
    ELSE "looping"

\* standby_mode(): its loop has one exit, `return True` after a probe that
\* succeeded (lines 207-210); else it sleeps and goes round again, whatever
\* reconnect_attempts is.
Daemon_standby_mode_returns(attempts, probed) == IF probed THEN "True" ELSE "looping"

\* Where run() is after standby_mode(): in active_mode() after True, in its
\* "Standby mode failed" branch (sleep 30, continue) after False.
Daemon_run_after_standby(returned) ==
    CASE returned = "True" -> [pc |-> "active", step |-> "entered"]
      [] returned = "False" -> [pc |-> "standby", step |-> "standby_failed"]
      [] OTHER -> [pc |-> "standby", step |-> "standby"]

\* standby_mode() without a handle calls connect_obs(); step keeps the level
\* of the line it logged.
DaemonConnect ==
    /\ variant = "daemon"
    /\ pc = "standby"
    /\ obs_ws = "None"
    /\ \E connect_ok \in BOOLEAN :
         /\ connect_ok \/ reconnect_attempts < MaxAttempts
         /\ \E post \in {Daemon_connect_log(reconnect_attempts, connect_ok)} :
              /\ reconnect_attempts' = post.reconnect_attempts
              /\ \E after \in {Daemon_run_after_standby(
                                   Daemon_standby_mode_returns(post.reconnect_attempts, FALSE))} :
                   /\ pc' = after.pc
                   /\ step' = IF connect_ok \/ after.step = "standby"
                              THEN post.level ELSE after.step
         /\ obs_ws' = Daemon_connect_obs(connect_ok)
    /\ calls' = <<>>
    /\ ConnectFrame

\* standby_mode() with a handle probes it with is_obs_active().
DaemonProbe ==
    /\ variant = "daemon"
    /\ pc = "standby"
    /\ obs_ws # "None"
    /\ \E version_ok \in BOOLEAN :
         \E probe \in {Daemon_is_obs_active(obs_ws, version_ok)} :
         \E after \in {Daemon_run_after_standby(
                          Daemon_standby_mode_returns(reconnect_attempts, probe.result))} :
           /\ obs_ws' = probe.obs_ws
           /\ calls' = probe.calls
           /\ pc' = after.pc
           /\ step' = after.step
    /\ UNCHANGED reconnect_attempts
    /\ ConnectFrame

\* The active session ends (the liveness branch, or run() after
\* active_mode() returned False): the handle is dropped.
DaemonDisconnect ==
    /\ variant = "daemon"
    /\ pc = "active"
    /\ pc' = "standby"
    /\ obs_ws' = Daemon_disconnect_obs(obs_ws)
    /\ calls' = <<>>
    /\ step' = "disconnected"
    /\ UNCHANGED reconnect_attempts
    /\ ConnectFrame

NextConnect == DaemonConnect \/ DaemonProbe \/ DaemonDisconnect \/ DaemonStop

SpecConnect == InitConnect /\ [][NextConnect]_vars

-----------------------------------------------------------------------------
(* SpecFresh: two calls with the scene collection edited in between *)

\* The remote starts with every item disabled.
InitFresh ==
    /\ InitSync
    /\ \A s \in DOMAIN items : \A k \in DOMAIN items[s] : ~items[s][k].sceneItemEnabled

\* A first call of any variant in which no request fails.
FirstSync ==
    /\ pc = "sync"
    /\ \E impl \in {"daemon", "native", "switcher"}, visible \in BOOLEAN,
          exclude_scene \in {NoName} \cup SceneSet(scenes) :
         Returned(<<>>, impl, "Cam", visible, AsSet(exclude_scene),
                  CallSync(impl, obs_ws, items, scenes,
                           Job("Cam", visible,
                               IF impl = "switcher" THEN AsSet(exclude_scene)
                               ELSE exclude_scene), {}),
                  "synced")

\* A list without its k-th element.
Without(seq, k) == SubSeq(seq, 1, k - 1) \o SubSeq(seq, k + 1, Len(seq))

\* An id no item of the start has.
FreshId(id) == id + MaxItems + Len(SyncScenes)

\* The user edits the scene collection between two polls: a scene is deleted,
\* an item is deleted, or an item is deleted and added again, which gives it
\* a new id.
RemoteEdit ==
    /\ pc = "synced"
    /\ pc' = "edited"
    /\ \/ \E i \in 1..Len(scenes) :
            /\ scenes' = Without(scenes, i)
            /\ items' = [items EXCEPT ![scenes[i]] = <<>>]
       \/ \E s \in SceneSet(scenes) : \E k \in DOMAIN items[s] :
            /\ scenes' = scenes
            /\ items' = [items EXCEPT ![s] = Without(@, k)]
       \/ \E s \in SceneSet(scenes) : \E k \in DOMAIN items[s] :
            /\ scenes' = scenes
            /\ items' = [items EXCEPT ![s][k].sceneItemId = FreshId(@)]
    /\ calls' = <<>>
    /\ UNCHANGED <<reconnect_attempts, variant, config, obs_ws, camera, face_detected, last_detection_time,
                   consecutive_errors, syncs, event, step, frame, script, items0,
                   emitted>>

\* The next call of the same variant for the same source and exclusion, on
\* the edited collection; a request of it can fail.
SyncEdited ==
    /\ pc = "edited"
    /\ LET first == syncs[1] IN
       \E visible \in BOOLEAN, F \in Faults(scenes, items) :
         Returned(syncs, first.impl, first.source_name, visible, first.exclude,
            CallSync(first.impl, obs_ws, items, scenes,
                     Job(first.source_name, visible,
                         IF first.impl = "switcher" THEN first.exclude
                         ELSE IF first.exclude = {} THEN NoName
                         ELSE CHOOSE x \in first.exclude : TRUE), F),
            "refreshed")

NextFresh == FirstSync \/ RemoteEdit \/ SyncEdited

SpecFresh == InitFresh /\ [][NextFresh]_vars

-----------------------------------------------------------------------------
(* What the claims about one call speak of *)

IsSetEnabled(r) == r.request = "SetSceneItemEnabled"

IsItemList(r) == r.request = "GetSceneItemList"

SetCalls(cs) == SelectSeq(cs, IsSetEnabled)

Range(seq) == { seq[i] : i \in 1..Len(seq) }

\* The places <<scene, index>> of the items named source_name in the given scenes.
Places(its, in_scenes, source_name) ==
    { p \in UNION { { <<s, k>> : k \in DOMAIN its[s] } : s \in in_scenes } :
        its[p[1]][p[2]].sourceName = source_name }

\* The items with the flag of the given places set to visible, all else kept.
WithFlag(its, places, visible) ==
    [s \in DOMAIN its |->
        [k \in DOMAIN its[s] |->
            IF <<s, k>> \in places
            THEN [its[s][k] EXCEPT !.sceneItemEnabled = visible]
            ELSE its[s][k]]]

\* The requests of cs that failed.
Failed(cs) == { i \in 1..Len(cs) : ~cs[i].ok }

\* The call set exactly the given places of its0, each once, by scene name and
\* the scene's own item id, and nothing else changed.
SetExactly(its0, its1, cs, places, visible) ==
    /\ { <<r.sceneName, r.sceneItemId>> : r \in Range(SetCalls(cs)) }
         = { <<p[1], its0[p[1]][p[2]].sceneItemId>> : p \in places }
    /\ Len(SetCalls(cs)) = Cardinality(places)
    /\ \A r \in Range(SetCalls(cs)) : r.sceneItemEnabled = visible /\ r.ok
    /\ its1 = WithFlag(its0, places, visible)

-----------------------------------------------------------------------------
(* The presence state machine and the daemon's sessions *)

\* A step that polled the detector and got a boolean result: the switcher's
\* detector raising gives none.
PollSteps == {"polled", "exit_quit", "exit_error"}

Polled(v, st, fr) ==
    /\ st \in PollSteps
    /\ fr \in Detections
    /\ ~(v = "switcher" /\ fr = "error")

\* One row of the transition table: nothing when the target name is unset.
TableRow(name, visible, exclude) ==
    IF name # NoName
    THEN <<[source_name |-> name, visible |-> visible, exclude |-> exclude]>>
    ELSE <<>>

\* The synchronizations of a step, as target, flag and excluded scenes.
Made(ss) ==
    [i \in 1..Len(ss) |-> [source_name |-> ss[i].source_name,
                           visible |-> ss[i].visible, exclude |-> ss[i].exclude]]

\* C1: in every poll cycle that gets a boolean detector result, a transition
\* event is emitted if and only if the result differs from the stored
\* face_detected; an event stores the result and a new last_detection_time;
\* on a matching result face_detected and last_detection_time are unchanged,
\* no synchronization is made and no item is set.
C1_EventIffResultDiffers ==
    [][ Polled(variant, step', frame') =>
          LET result == frame' = "face"
          IN  /\ (event' # "none") <=> (result # face_detected)
              /\ event' # "none" =>
                    /\ event' = (IF result THEN "present" ELSE "absent")
                    /\ face_detected' = result
                    /\ last_detection_time' = Now(last_detection_time)
              /\ event' = "none" =>
                    /\ face_detected' = face_detected
                    /\ last_detection_time' = last_detection_time
                    /\ syncs' = <<>>
                    /\ SetCalls(calls') = <<>>
                    /\ items' = items ]_vars

\* C1 witness: a cycle whose result "no face" differed from the stored state
\* emitted the event "absent" and synchronized.
C1_Witness ==
    /\ step = "polled"
    /\ frame = "noface"
    /\ event = "absent"
    /\ ~face_detected
    /\ syncs # <<>>

\* The steps in which the daemon goes from ACTIVE back to STANDBY.
FallbackSteps == {"exit_probe", "exit_capture", "exit_error", "exit_quit"}

\* The reset pass: the show target hidden and the hide target shown, in all scenes.
ResetPass(cfg) ==
    TableRow(cfg.show_source_name, FALSE, {}) \o TableRow(cfg.hide_source_name, TRUE, {})

\* C2: every step in which the daemon goes from ACTIVE back to STANDBY
\* (liveness probe failed, capture-failure ceiling reached, runtime error in
\* the active loop) makes the synchronizations of the reset pass.
C2_FallbackIssuesResetPass ==
    (variant = "daemon" /\ step \in {"exit_probe", "exit_capture", "exit_error"}) =>
        Made(syncs) = ResetPass(config)

\* C3: face_detected is false whenever the daemon is in standby and whenever
\* an active session starts.
C3_FalseAtSessionStart ==
    (variant = "daemon" /\ (pc = "standby" \/ step = "entered")) => ~face_detected

\* The remote accepted the calls of the step: the liveness probe succeeded
\* and no request to the scene graph failed.
RemoteAccepts(cs) ==
    /\ GetVersion(TRUE) \in Range(cs)
    /\ \A i \in 1..Len(cs) : cs[i].ok \/ cs[i].request = "GetSourceScreenshot"

\* Every item named source_name has the flag enabled.
AllFlagged(its, source_name, enabled) ==
    \A s \in DOMAIN its : \A k \in DOMAIN its[s] :
        its[s][k].sourceName = source_name => its[s][k].sceneItemEnabled = enabled

\* C4: after a step in which the daemon goes from ACTIVE back to STANDBY
\* while the remote accepts calls, every show-target item is disabled and
\* every hide-target item is enabled.
C4_BaselineAfterFallback ==
    (variant = "daemon" /\ step \in FallbackSteps /\ RemoteAccepts(calls)) =>
        /\ config.show_source_name # NoName => AllFlagged(items, config.show_source_name, FALSE)
        /\ config.hide_source_name # NoName => AllFlagged(items, config.hide_source_name, TRUE)

\* The transition table of the daemon and native variants.
TransitionTable(cfg, ev) ==
    IF ev = "present"
    THEN TableRow(cfg.show_source_name, TRUE, {})
         \o TableRow(cfg.hide_source_name, FALSE, {})
    ELSE TableRow(cfg.show_source_name, FALSE,
                  IF cfg.detection_scene_name # NoName
                  THEN {cfg.detection_scene_name} ELSE {})
         \o TableRow(cfg.hide_source_name, TRUE, {})

\* C5: in the daemon and native variants the synchronizations of a step that
\* emitted an event are exactly the rows of the transition table whose target
\* name is set: on "present" show target visible and hide target hidden with
\* no exclusion, on "absent" show target hidden outside detection_scene_name
\* and hide target visible with no exclusion.
C5_TransitionTable ==
    (variant \in {"daemon", "native"} /\ event # "none") =>
        Made(syncs) = TransitionTable(config, event)

\* C5 witness: the native variant emitted "absent" with both targets and the
\* detection scene configured, and made two synchronizations.
C5_Witness ==
    /\ variant = "native"
    /\ event = "absent"
    /\ config.detection_scene_name = "Monitor"
    /\ Len(syncs) = 2

\* The set-enabled requests of a step as scene, source name and flag.
SetEnabledOf(its, cs) ==
    LET sc == SetCalls(cs)
        name(r) == LET k == CHOOSE k \in DOMAIN its[r.sceneName] :
                              its[r.sceneName][k].sceneItemId = r.sceneItemId
                   IN  its[r.sceneName][k].sourceName
    IN  [i \in 1..Len(sc) |-> [scene |-> sc[i].sceneName, source |-> name(sc[i]),
                               enabled |-> sc[i].sceneItemEnabled, ok |-> sc[i].ok]]

SetEnabled(scene, source, enabled) ==
    [scene |-> scene, source |-> source, enabled |-> enabled, ok |-> TRUE]

\* The set-enabled calls of the scenario at the detector result of index i.
E2EExpected(i) ==
    CASE i = 2 -> { SetEnabled("Monitor", "Overlay", TRUE), SetEnabled("Main", "Overlay", TRUE),
                    SetEnabled("Monitor", "Idle", FALSE), SetEnabled("Main", "Idle", FALSE) }
      [] i = 4 -> { SetEnabled("Main", "Overlay", FALSE),
                    SetEnabled("Monitor", "Idle", TRUE), SetEnabled("Main", "Idle", TRUE) }
      [] OTHER -> {}

\* The index of the detector result the last poll cycle took.
E2EIndex == Len(E2EScript) - Len(script) - 1

\* C6: in the end-to-end scenario the set-enabled calls are exactly: at
\* index 2 enable Overlay and disable Idle in Monitor and Main; at index 4
\* disable Overlay in Main only and enable Idle in Monitor and Main; none at
\* indices 0, 1 and 3, and none in a step that is not a poll cycle.
C6_EndToEndCalls ==
    LET made == SetEnabledOf(items, calls)
        expected == IF step = "polled" THEN E2EExpected(E2EIndex) ELSE {}
    IN  /\ Range(made) = expected
        /\ Len(made) = Cardinality(expected)

\* C6 witness: the poll cycle of index 4 has made its three calls on a graph
\* where Overlay stays enabled in Monitor.
C6_Witness ==
    /\ step = "polled"
    /\ script = <<>>
    /\ Len(SetCalls(calls)) = 3
    /\ items["Monitor"][1].sceneItemEnabled
    /\ ~items["Main"][1].sceneItemEnabled

-----------------------------------------------------------------------------
(* set_source_visibility_global *)

\* C7: with no request failing, one call sets exactly the items named like the
\* target in the scenes that are not excluded, each addressed by its scene
\* name and its scene's own item id; items of excluded scenes and items with
\* another source name keep their flag; the call returns True iff it set one.
C7_SetsExactlyMatchingItems ==
    (pc = "synced" /\ AllOk(calls)) =>
        LET c == syncs[1]
            places == Places(items0, SceneSet(scenes) \ c.exclude, c.source_name)
        IN  /\ SetExactly(items0, items, calls, places, c.visible)
            /\ c.result = (places # {})

\* C7 witness: scenes A, B, C each hold "Cam", B is excluded: A and C are
\* set, B is untouched, two requests, the call returns True.
C7_Witness ==
    /\ pc = "synced" /\ AllOk(calls)
    /\ syncs[1].exclude = {"B"} /\ syncs[1].visible /\ syncs[1].result
    /\ \A s \in SceneSet(scenes) :
         Len(items0[s]) = 1 /\ items0[s][1].sourceName = "Cam"
                            /\ ~items0[s][1].sceneItemEnabled
    /\ items["A"][1].sceneItemEnabled /\ items["C"][1].sceneItemEnabled
    /\ ~items["B"][1].sceneItemEnabled
    /\ Len(SetCalls(calls)) = 2

\* The one failing request of the call is the item-list fetch of a scene.
OneItemListFailed(cs) ==
    /\ Cardinality(Failed(cs)) = 1
    /\ \A i \in Failed(cs) : IsItemList(cs[i])

FailedScene(cs) == cs[CHOOSE i \in Failed(cs) : TRUE].sceneName

\* One scene's item-list fetch failed, and the call still set every matching
\* item of every other scene that is not excluded, and returned True iff it
\* set one.
ToleratesItemListFailure ==
    LET c == syncs[1]
        places == Places(items0, (SceneSet(scenes) \ c.exclude) \ {FailedScene(calls)},
                         c.source_name)
    IN  /\ SetExactly(items0, items, calls, places, c.visible)
        /\ c.result = (places # {})

\* C8: in FaceDetectionSwitcher, a failed item-list fetch of one scene does
\* not stop the loop: the matching items of all other scenes that are not
\* excluded are set and the call returns True when it set at least one.
C8_SwitcherToleratesItemListFailure ==
    (pc = "synced" /\ syncs[1].impl = "switcher" /\ OneItemListFailed(calls))
        => ToleratesItemListFailure

\* C8 witness: the fetch of B failed, the "Cam" items of A and C were set.
C8_Witness ==
    /\ pc = "synced" /\ syncs[1].impl = "switcher" /\ OneItemListFailed(calls)
    /\ FailedScene(calls) = "B" /\ syncs[1].exclude = {} /\ syncs[1].visible
    /\ \A s \in SceneSet(scenes) :
         Len(items0[s]) = 1 /\ items0[s][1].sourceName = "Cam"
                            /\ ~items0[s][1].sceneItemEnabled
    /\ items["A"][1].sceneItemEnabled /\ items["C"][1].sceneItemEnabled
    /\ ~items["B"][1].sceneItemEnabled
    /\ syncs[1].result

\* C9: in FaceDetectionDaemon and FaceDetectionNative, a failed item-list
\* fetch of one scene skips that scene only: the matching items of the later
\* scenes are still set and the call reports the partial success.
C9_DaemonNativeTolerateItemListFailure ==
    (pc = "synced" /\ syncs[1].impl \in {"daemon", "native"} /\ OneItemListFailed(calls))
        => ToleratesItemListFailure

\* C10: set_source_visibility_global(X, True) followed at once by
\* set_source_visibility_global(X, False), neither with an exclusion nor a
\* failing request, leaves every item named X disabled and every other item
\* with the flag it had at the start.
C10_ShowThenHideDisablesAll ==
    (/\ pc = "resynced"
     /\ syncs[1].visible /\ ~syncs[2].visible
     /\ syncs[1].exclude = {} /\ syncs[2].exclude = {})
        => items = WithFlag(items0, Places(items0, SceneSet(scenes), syncs[1].source_name), FALSE)

\* C10 witness: a scene held an enabled "Cam" and an enabled "Other"; after
\* the two calls "Cam" is disabled and "Other" still enabled.
C10_Witness ==
    /\ pc = "resynced"
    /\ syncs[1].visible /\ ~syncs[2].visible
    /\ syncs[1].exclude = {} /\ syncs[2].exclude = {}
    /\ \E s \in SceneSet(scenes) :
         /\ Len(items0[s]) = 2
         /\ items0[s][1].sourceName = "Cam" /\ items0[s][1].sceneItemEnabled
         /\ items0[s][2].sourceName = "Other" /\ items0[s][2].sceneItemEnabled
         /\ ~items[s][1].sceneItemEnabled /\ items[s][2].sceneItemEnabled

\* C11: a second call with the same target, visibility and exclusion, on the
\* scene graph the first call left and with no request failing in either,
\* leaves every enabled flag as the first call left it and returns what the
\* first call returned.
C11_Idempotent ==
    [][ (pc = "synced" /\ pc' = "resynced" /\ syncs'[2].visible = syncs[1].visible) =>
          /\ items' = items
          /\ syncs'[2].result = syncs[1].result ]_vars

\* C11 witness: the first call changed a flag and returned True, the second
\* call made the same requests again and returned True.
C11_Witness ==
    /\ pc = "resynced"
    /\ syncs[2].visible = syncs[1].visible
    /\ syncs[1].result /\ syncs[2].result
    /\ items # items0
    /\ SetCalls(calls) # <<>>

-----------------------------------------------------------------------------
(* The daemon over a whole run *)

\* C12: over a whole run of the daemon no two consecutive emitted events
\* carry the same resulting state.
C12_EventsAlternate ==
    (variant = "daemon" /\ emitted.prev # "none") => emitted.prev # emitted.last

\* C12 as amended: two consecutive events of the daemon carry the same
\* resulting state only when the liveness branch reset face_detected between
\* them, and then both are "present".
C12_RepeatOnlyAfterReset ==
    (variant = "daemon" /\ emitted.prev # "none" /\ emitted.prev = emitted.last) =>
        (emitted.last = "present" /\ emitted.between)

\* C12 witness: "present" was emitted twice in a row, the liveness branch
\* having reset face_detected in between.
C12_Witness ==
    /\ variant = "daemon"
    /\ emitted.prev = "present" /\ emitted.last = "present" /\ emitted.between
    /\ event = "present"

\* C13: in FaceDetectionSwitcher.run with hide_source_name configured, a
\* transition whose requests all succeed leaves every hide-target item
\* disabled after "present" and enabled after "absent".
C13_SwitcherTogglesHideTarget ==
    (/\ variant = "switcher"
     /\ event # "none"
     /\ config.hide_source_name # NoName
     /\ AllOk(calls))
        => AllFlagged(items, config.hide_source_name, event = "absent")

\* C14: when the liveness probe fails the daemon makes the calls of the
\* reset pass and, whichever requests would fail and with no handle held,
\* stays in its loop, in standby, with face_detected false.
C14_ResetFailuresSwallowed ==
    (variant = "daemon" /\ step = "exit_probe") =>
        /\ Made(syncs) = ResetPass(config)
        /\ pc = "standby"
        /\ ~face_detected

\* C14 witness: a face had been detected; the probe failed, both reset calls
\* returned False, and the daemon is in standby with face_detected false.
C14_Witness ==
    /\ variant = "daemon" /\ step = "exit_probe"
    /\ emitted.last = "present"
    /\ Len(syncs) = 2 /\ ~syncs[1].result /\ ~syncs[2].result
    /\ pc = "standby" /\ ~face_detected

-----------------------------------------------------------------------------
(* set_source_visibility_global: counting, outcome, discovery *)

\* C15: with no request failing, one call makes one set-enabled request per
\* matching item of the scenes that are not excluded, each with the item's own
\* id, and its count is the number of those items, however many share a scene.
C15_OneCallPerMatchingItem ==
    (pc = "synced" /\ AllOk(calls)) =>
        LET c == syncs[1]
            places == Places(items0, SceneSet(scenes) \ c.exclude, c.source_name)
        IN  /\ c.changes_made = Cardinality(places)
            /\ Len(SetCalls(calls)) = Cardinality(places)
            /\ { <<r.sceneName, r.sceneItemId>> : r \in Range(SetCalls(calls)) }
                 = { <<p[1], items0[p[1]][p[2]].sceneItemId>> : p \in places }

\* C15 witness: scene A alone holds the target, twice; two requests with
\* different item ids were made for A and the count is 2.
C15_Witness ==
    /\ pc = "synced" /\ AllOk(calls)
    /\ syncs[1].exclude = {} /\ syncs[1].changes_made = 2
    /\ Len(items0["A"]) = 2 /\ items0["B"] = <<>> /\ items0["C"] = <<>>
    /\ \A k \in 1..2 : items0["A"][k].sourceName = "Cam"
    /\ Len(SetCalls(calls)) = 2
    /\ SetCalls(calls)[1].sceneItemId # SetCalls(calls)[2].sceneItemId

\* C16: a call returns True if and only if it set at least one matching item
\* successfully.
C16_FoundIffItemSet ==
    pc = "synced" =>
        (syncs[1].result <=> \E r \in Range(SetCalls(calls)) : r.ok)

\* The scene-list requests of a call.
IsSceneList(r) == r.request = "GetSceneList"

\* C17: a call that holds a handle makes exactly one scene-list request, the
\* first request of the call; when it fails the call makes no other request,
\* changes no flag and returns False.
C17_SceneListFailureAborts ==
    pc = "synced" =>
        /\ Len(SelectSeq(calls, IsSceneList)) = 1
        /\ IsSceneList(calls[1])
        /\ ~calls[1].ok =>
              /\ Len(calls) = 1
              /\ ~syncs[1].result
              /\ items = items0

\* C17 witness: the scene-list fetch failed on a graph where every scene
\* holds the target; one request, no flag changed, False returned.
C17_Witness ==
    /\ pc = "synced"
    /\ calls = <<GetSceneList(FALSE)>>
    /\ ~syncs[1].result /\ syncs[1].exclude = {}
    /\ \A s \in SceneSet(scenes) : Places(items0, {s}, syncs[1].source_name) # {}
    /\ items = items0

\* The scenes whose item list a call fetched, in order.
Fetched(cs) ==
    LET fetches == SelectSeq(cs, IsItemList)
    IN  [i \in 1..Len(fetches) |-> fetches[i].sceneName]

\* The scenes of scs outside exclude, in order.
RECURSIVE Kept(_, _)
Kept(scs, exclude) ==
    IF scs = <<>> THEN <<>>
    ELSE IF Head(scs) \in exclude THEN Kept(Tail(scs), exclude)
    ELSE <<Head(scs)>> \o Kept(Tail(scs), exclude)

\* C19: with no request failing, a call fetches the item list of every scene
\* of the scene list, whether or not the scene is excluded.
C19_DiscoveryIgnoresExclusion ==
    (pc = "synced" /\ AllOk(calls)) => Fetched(calls) = scenes

\* C19 as amended: with no request failing, a call makes one scene-list
\* request whatever the exclusion, and fetches the item list of exactly the
\* scenes that are not excluded, in scene-list order; an excluded scene is
\* neither fetched nor written.
C19_ExclusionSkipsFetchAndWrite ==
    (pc = "synced" /\ AllOk(calls)) =>
        /\ Len(SelectSeq(calls, IsSceneList)) = 1
        /\ Fetched(calls) = Kept(scenes, syncs[1].exclude)
        /\ \A r \in Range(SetCalls(calls)) : r.sceneName \notin syncs[1].exclude

\* C19 witness: B is excluded and holds the target; the item lists of A and
\* C were fetched, B was not.
C19_Witness ==
    /\ pc = "synced" /\ AllOk(calls)
    /\ syncs[1].exclude = {"B"}
    /\ Places(items0, {"B"}, syncs[1].source_name) # {}
    /\ Fetched(calls) = <<"A", "C">>

-----------------------------------------------------------------------------
(* The daemon: exclusion of the detection scene, leaving standby *)

\* A request that disables an item of source_name in scene_name.
Disables(its, r, scene_name, source_name) ==
    /\ IsSetEnabled(r)
    /\ r.sceneName = scene_name
    /\ ~r.sceneItemEnabled
    /\ \E k \in DOMAIN its[scene_name] :
          /\ its[scene_name][k].sceneItemId = r.sceneItemId
          /\ its[scene_name][k].sourceName = source_name

C20_ActiveOnlyAfterProbe ==
    variant = "daemon" =>
        /\ pc = "active" => obs_ws = "obsws"
        /\ step = "entered" => (pc = "active" /\ calls = <<GetVersion(TRUE)>>)
        /\ step = "standby" =>
              (pc = "standby" /\ obs_ws = "None" /\ GetVersion(TRUE) \notin Range(calls))

\* C20 witness: after a fallback on a failed probe the daemon connected
\* again, the probe succeeded and a new active session started.
C20_Witness ==
    /\ variant = "daemon" /\ step = "entered" /\ pc = "active"
    /\ obs_ws = "obsws" /\ calls = <<GetVersion(TRUE)>>
    /\ emitted.reset

\* The steps in which a connection attempt or a liveness probe failed, or a
\* stop signal arrived.
Unanswered == {"standby", "exit_probe", "stopped", "stop_swallowed"}

\* The steps of a poll cycle that passed the liveness probe.
PolledSteps == {"polled", "capture", "exit_capture", "exit_quit", "exit_error", "exit_fatal"}

\* C21 as stated: whenever, from some point on, connect and the probe succeed
\* and no stop signal arrives, the daemon polls again and again.
C21_RecoversAlways == (<>[](step \notin Unanswered)) => []<>(step \in PolledSteps)

\* C21, amended: with a non-empty monitor_source_name, whenever, from some
\* point on, connect and the probe succeed and no stop signal arrives, the
\* daemon enters active mode and polls again and again.
C21_RecoversWithMonitorSource ==
    (config.monitor_source_name # NoName)
        => ((<>[](step \notin Unanswered)) => []<>(step \in PolledSteps))

\* A poll cycle after the liveness branch had sent the daemon to standby.
C21_Witness ==
    /\ variant = "daemon"
    /\ pc = "active"
    /\ step = "polled"
    /\ emitted.reset
    /\ config.monitor_source_name # NoName

IsScreenshot(r) == r.request = "GetSourceScreenshot"

\* C22: every poll cycle of the daemon starts with the liveness probe, a
\* GetVersion request; the probe fails in exactly the cycles that leave for
\* standby through the liveness branch, and such a cycle asks for no frame,
\* runs no detector and emits no transition.
C22_ProbeFirst ==
    (variant = "daemon" /\ step \in PolledSteps \cup {"exit_probe"}) =>
        /\ calls # <<>>
        /\ calls[1].request = "GetVersion"
        /\ (~calls[1].ok) <=> (step = "exit_probe")
        /\ step = "exit_probe" =>
              /\ pc = "standby"
              /\ \A r \in Range(calls) : ~IsScreenshot(r)
              /\ frame = "none"
              /\ event = "none"

\* A cycle whose probe failed and that left for standby.
C22_Witness ==
    /\ variant = "daemon"
    /\ step = "exit_probe"
    /\ calls # <<>>
    /\ calls[1] = GetVersion(FALSE)
    /\ pc = "standby"

\* A cycle of the daemon's active loop whose capture failed.
CaptureFailed(st) == st \in {"capture", "exit_capture"}

\* C23 as stated: a failed capture adds one to the counter, and the daemon
\* leaves for standby exactly when the counter then exceeds the ceiling.
C23_FallsBackAboveCeiling ==
    [][(variant = "daemon" /\ pc = "active" /\ CaptureFailed(step')) =>
          /\ consecutive_errors' = consecutive_errors + 1
          /\ (pc' = "standby") <=> (consecutive_errors' > Daemon_max_consecutive_errors)
          /\ (pc' = "active") <=> (consecutive_errors' <= Daemon_max_consecutive_errors)]_vars

\* C23, amended: a failed capture adds one to the counter, and the daemon
\* leaves for standby exactly when the counter then reaches the ceiling, that
\* is on the fifth failure in a row; below the ceiling the loop goes on.
C23_FallsBackAtCeiling ==
    [][(variant = "daemon" /\ pc = "active" /\ CaptureFailed(step')) =>
          /\ consecutive_errors' = consecutive_errors + 1
          /\ (pc' = "standby") <=> (consecutive_errors' >= Daemon_max_consecutive_errors)
          /\ (pc' = "active") <=> (consecutive_errors' < Daemon_max_consecutive_errors)
          /\ (step' = "exit_capture") <=> (pc' = "standby")]_vars

\* The fifth failed capture in a row has sent the daemon to standby.
C23_Witness ==
    /\ variant = "daemon"
    /\ step = "exit_capture"
    /\ pc = "standby"
    /\ consecutive_errors = Daemon_max_consecutive_errors

\* The ceiling of the consecutive-failure counter of a variant that has one.
Ceiling(v) ==
    IF v = "daemon" THEN Daemon_max_consecutive_errors ELSE Native_max_consecutive_errors

\* The requests that read the remote without changing it.
ReadOnly(r) == r.request \in {"GetVersion", "GetSourceScreenshot"}

\* C24: in the daemon and the native program a cycle whose capture failed
\* leaves the stored presence, its time stamp and every enabled flag as they
\* were, runs no detector, emits no transition and makes no synchronization
\* call; a cycle whose capture succeeded leaves the counter at 0; and the
\* counter stays within 0..ceiling.
C24_FailedCaptureTouchesNothing ==
    [][(variant \in {"daemon", "native"}) =>
          /\ (pc \in {"active", "polling"} /\ CaptureFailed(step')) =>
                /\ face_detected' = face_detected
                /\ last_detection_time' = last_detection_time
                /\ items' = items
                /\ syncs' = <<>>
                /\ \A r \in Range(calls') : ReadOnly(r)
                /\ event' = "none"
                /\ emitted' = emitted
                /\ frame' = "failed"
          /\ (pc \in {"active", "polling"} /\ step' \in PollSteps) => consecutive_errors' = 0
          /\ consecutive_errors' >= 0
          /\ consecutive_errors' <= Ceiling(variant)]_vars

\* A capture failed after a face had been detected: the stored presence is
\* kept and the count of failures starts again from one.
C24_Witness ==
    /\ variant = "native"
    /\ pc = "polling"
    /\ step = "capture"
    /\ frame = "failed"
    /\ face_detected
    /\ consecutive_errors = 1

\* The requests of a synchronization call.
IsSyncRequest(r) == IsSceneList(r) \/ IsItemList(r) \/ IsSetEnabled(r)

\* C25: in every variant a step that makes a scene-list, item-list or
\* set-enabled request is a poll cycle whose detector result differs from the
\* stored presence, and which emits the transition, or is the reset pass of
\* the daemon's liveness branch; a cycle whose result matches the stored
\* presence makes none of these requests.
C25_WriteOnlyOnEdge ==
    [][(\E r \in Range(calls') : IsSyncRequest(r)) =>
          \/ step' = "exit_probe"
          \/ /\ Polled(variant, step', frame')
             /\ (frame' = "face") # face_detected
             /\ event' # "none"]_vars

\* A transition cycle has written an enabled flag.
C25_Witness ==
    /\ step = "polled"
    /\ event = "present"
    /\ \E r \in Range(calls) : IsSetEnabled(r) /\ r.ok

\* The steps in which a stop signal reached the daemon.
Signalled == {"stopped", "stop_swallowed"}

\* C26: a stop signal that reaches the daemon in standby or in active mode
\* ends the loop of run(), and run() returns with the connection
\* disconnected and no handle held.
C26_StopEndsLoop ==
    (variant = "daemon" /\ step \in Signalled) =>
        /\ pc = "stopped"
        /\ obs_ws = "None"

\* What a variant holds is released: the daemon drops its handle, the switcher
\* and the native program disconnect theirs, and the camera is released.
Released ==
    /\ obs_ws \in {"None", "closed"}
    /\ camera \in {"None", "unopened", "released"}

\* C27: in every variant the quit key of the preview window ends the main
\* loop: the program is stopped, holds no open connection or camera, and does
\* not go back to standby or polling.
C27_QuitIsShutdown ==
    step = "exit_quit" => (pc = "stopped" /\ Released)

\* What the claim calls fatal: no configuration file, an unreadable one, or a
\* required key that the file does not hold.
FatalAtStartup(v, f) ==
    \/ f.file # "ok"
    \/ f.obs_host = Absent
    \/ f.obs_port = Absent
    \/ (v # "native" /\ f.monitor_source_name = Absent)

\* C28: main() exits with status 1, with no connection attempted, exactly when
\* the configuration file is missing or unreadable or lacks obs_host, obs_port
\* or (except in the native program) monitor_source_name; otherwise it goes on
\* to the run loop; and nothing runs after the exit.
C28_StartupValidation ==
    [][/\ pc # "exited"
       /\ pc = "main" =>
             IF FatalAtStartup(variant, config)
             THEN /\ pc' = "exited"
                  /\ step' = "exit_1"
                  /\ obs_ws' = "None"
                  /\ calls' = <<>>
             ELSE /\ pc' = (IF variant = "daemon" THEN "standby" ELSE "start")
                  /\ config' \in Configs]_vars

\* The daemon has refused a readable file that lacks only monitor_source_name.
C28_Witness ==
    /\ variant = "daemon"
    /\ pc = "exited"
    /\ step = "exit_1"
    /\ config.file = "ok"
    /\ config.obs_host # Absent
    /\ config.obs_port # Absent
    /\ config.monitor_source_name = Absent
    /\ obs_ws = "None"

\* A target name that is missing from the file or empty.
Unset(name) == name \in {Absent, NoName}

\* C29: a configuration that passes the required keys and names neither a show
\* nor a hide target is let through by main(), and from then on no step calls
\* set_source_visibility_global or makes a scene-list, item-list or
\* set-enabled request, whatever the detector sees.
C29_NoTargetsNoCalls ==
    [][/\ (/\ pc = "main"
           /\ ~FatalAtStartup(variant, config)
           /\ Unset(config.show_source_name)
           /\ Unset(config.hide_source_name)) =>
             /\ pc' = (IF variant = "daemon" THEN "standby" ELSE "start")
             /\ config'.show_source_name = NoName
             /\ config'.hide_source_name = NoName
       /\ (/\ pc' \notin {"main", "exited"}
           /\ config'.show_source_name = NoName
           /\ config'.hide_source_name = NoName) =>
             /\ syncs' = <<>>
             /\ \A r \in Range(calls') : ~IsSyncRequest(r)]_vars

\* Without targets the daemon has polled and emitted a transition, and its
\* only requests were the probe and the screenshot.
C29_Witness ==
    /\ variant = "daemon"
    /\ config.show_source_name = NoName
    /\ config.hide_source_name = NoName
    /\ step = "polled"
    /\ event = "present"
    /\ calls = <<GetVersion(TRUE), GetSourceScreenshot(TRUE)>>

\* C30: whatever fails (connect, disconnect, GetVersion, the screenshot, the
\* detector, the preview, a scene-list, item-list or set-enabled request),
\* the daemon is in standby or in active mode with a next iteration to run,
\* and it is stopped only by a stop signal.
C30_OnlyStopSignalEndsDaemon ==
    variant = "daemon" =>
        /\ pc \in {"standby", "active", "stopped"}
        /\ pc = "stopped" => step = "stopped"
        /\ pc = "standby" => ENABLED DaemonStandby(BOOLEAN)
        /\ pc = "active" =>
              ENABLED DaemonActive(BOOLEAN, Detections, Faults(scenes, items),
                                   Daemon_preview_keys(config))

\* A runtime error inside the active loop has sent the daemon to standby.
C30_Witness ==
    /\ variant = "daemon"
    /\ step = "exit_error"
    /\ pc = "standby"
    /\ obs_ws = "None"

\* The ids the items of a scene have on the remote.
IdsOf(its, scene_name) == { its[scene_name][k].sceneItemId : k \in DOMAIN its[scene_name] }

\* C31: every call that reaches the remote sends its own scene-list request
\* first and only once, fetches item lists only of scenes the remote lists at
\* that time, and addresses a set-enabled request only to an item id that the
\* remote holds in that scene at that time, after the item-list fetch of that
\* scene in the same call; so a call in which nothing fails sets exactly the
\* matching items of the collection as edited since the call before.
C31_EnumeratedFresh ==
    [][(pc' \in {"synced", "refreshed"}) =>
          LET c == syncs'[Len(syncs')] IN
          /\ calls' # <<>>
          /\ IsSceneList(calls'[1])
          /\ \A i \in 2..Len(calls') : ~IsSceneList(calls'[i])
          /\ \A i \in 1..Len(calls') :
                /\ IsItemList(calls'[i]) => calls'[i].sceneName \in SceneSet(scenes)
                /\ IsSetEnabled(calls'[i]) =>
                      /\ \E j \in 1..(i - 1) :
                            calls'[j] = GetSceneItemList(calls'[i].sceneName, TRUE)
                      /\ calls'[i].sceneItemId \in IdsOf(items, calls'[i].sceneName)
          /\ AllOk(calls') =>
                SetExactly(items, items', calls',
                           Places(items, SceneSet(scenes) \ c.exclude, c.source_name),
                           c.visible)]_vars

\* After a scene was deleted and the target shown before, a second call has
\* set the target in the scenes that are left.
C31_Witness ==
    /\ pc = "refreshed"
    /\ Len(scenes) < Len(SyncScenes)
    /\ AllOk(calls)
    /\ SetCalls(calls) # <<>>
    /\ syncs[1].impl = "daemon"

\* The levels connect_obs() can log a failed attempt at.
FailedLevels == {"error", "warning", "none"}

\* C32: reconnect_attempts is 0 after a connect that succeeded and one more
\* after each that failed, so it counts the failures in a row; the n-th of
\* them is logged at error level iff n <= 3, at warning level iff n > 3 and
\* n is a multiple of 12, and not at all otherwise.
C32_LogSuppression ==
    [][(step' \in FailedLevels \cup {"info"}) =>
          LET n == reconnect_attempts' IN
          IF step' = "info"
          THEN n = 0 /\ obs_ws' # "None"
          ELSE /\ n = reconnect_attempts + 1
               /\ obs_ws' = "None"
               /\ (step' = "error") <=> (n <= 3)
               /\ (step' = "warning") <=> (n > 3 /\ n % 12 = 0)
               /\ (step' = "none") <=> (n > 3 /\ n % 12 # 0)]_vars

\* The twenty-fourth failure in a row was logged as a warning.
C32_Witness ==
    /\ reconnect_attempts = 24
    /\ step = "warning"
    /\ obs_ws = "None"

C34_StateAheadOfRemote ==
    [][/\ (Polled(variant, step', frame') /\ (frame' = "face") # face_detected) =>
             /\ face_detected' = (frame' = "face")
             /\ event' # "none"
       /\ (Polled(variant, step', frame') /\ (frame' = "face") = face_detected) =>
             /\ face_detected' = face_detected
             /\ \A r \in Range(calls') : ~IsSyncRequest(r)
       /\ event' = "none" => items' = items]_vars

\* The daemon saw a face, the show target's synchronization failed at its
\* scene-list request, and the presence is stored as detected while the
\* target is still disabled everywhere.
C34_Witness ==
    /\ variant = "daemon"
    /\ step = "polled"
    /\ event = "present"
    /\ face_detected
    /\ config.show_source_name # NoName
    /\ \E r \in Range(calls) : IsSceneList(r) /\ ~r.ok
    /\ ~syncs[1].result
    /\ \A s \in DOMAIN items : \A k \in DOMAIN items[s] :
          items[s][k].sourceName = config.show_source_name => ~items[s][k].sceneItemEnabled

\* C35: the daemon holds a handle only while it is in active mode: in
\* standby, where connect_obs() is called, it holds none, whether a connect
\* has failed, a probe has failed or an active session has ended by the
\* liveness branch or by an error return; and it holds none when stopped.
C35_OneHandle ==
    variant = "daemon" =>
        /\ obs_ws \in {"None", "obsws"}
        /\ pc \in {"standby", "stopped"} => obs_ws = "None"
        /\ pc = "active" => obs_ws = "obsws"

\* An active session has ended by an error return, and standby starts
\* without a handle.
C35_Witness ==
    /\ variant = "daemon"
    /\ pc = "standby"
    /\ step \in {"exit_capture", "exit_error", "exit_quit"}
    /\ obs_ws = "None"

\* The source of the item that has the given id in the given scene.
SourceAt(its, scene_name, id) ==
    its[scene_name][CHOOSE k \in DOMAIN its[scene_name] :
                        its[scene_name][k].sceneItemId = id].sourceName

\* The positions of the scene-list requests in a sequence of requests.
SceneListAt(cs) == { i \in 1..Len(cs) : IsSceneList(cs[i]) }

\* C36: in a transition of the daemon or the native program with both
\* targets configured, the show target is synchronized first and the hide
\* target second; every item-list and set-enabled request of the first call
\* comes before the scene-list request that opens the second, every
\* set-enabled request before it addresses the show target and every one
\* after it the hide target; and the frame of the cycle was acquired before
\* all of them.
C36_ShowThenHide ==
    (/\ variant \in {"daemon", "native"}
     /\ step \in PollSteps
     /\ event # "none"
     /\ config.show_source_name # NoName
     /\ config.hide_source_name # NoName) =>
        /\ Len(syncs) = 2
        /\ syncs[1].source_name = config.show_source_name
        /\ syncs[2].source_name = config.hide_source_name
        /\ Cardinality(SceneListAt(calls)) = 2
        /\ LET a == CHOOSE i \in SceneListAt(calls) : \A j \in SceneListAt(calls) : i <= j
               b == CHOOSE i \in SceneListAt(calls) : \A j \in SceneListAt(calls) : i >= j
           IN  \A i \in 1..Len(calls) :
                 /\ (IsItemList(calls[i]) \/ IsSetEnabled(calls[i])) => i > a
                 /\ IsScreenshot(calls[i]) => i < a
                 /\ IsSetEnabled(calls[i]) =>
                       SourceAt(items, calls[i].sceneName, calls[i].sceneItemId)
                         = (IF i < b THEN config.show_source_name
                            ELSE config.hide_source_name)

\* A transition to present in which both calls wrote: the show target was
\* enabled and then the hide target disabled.
C36_Witness ==
    /\ variant = "daemon"
    /\ step = "polled"
    /\ event = "present"
    /\ Len(syncs) = 2
    /\ syncs[1].result /\ syncs[2].result
    /\ Len(SetCalls(calls)) >= 2
    /\ SetCalls(calls)[1].sceneItemEnabled
    /\ ~SetCalls(calls)[Len(SetCalls(calls))].sceneItemEnabled

\* C37: standby_mode() is left only for active mode, after a probe that
\* succeeded, or by the stop signal; run() never reaches its "Standby mode
\* failed" branch; and however many connects have failed in a row, more than
\* max_reconnect_attempts too, the next attempt is made.
C37_StandbyNeverGivesUp ==
    /\ step # "standby_failed"
    /\ pc \in {"standby", "active", "stopped"}
    /\ (pc = "active" /\ step = "entered") => calls = <<GetVersion(TRUE)>>
    /\ pc = "stopped" => step = "stopped"
    /\ (pc = "standby" /\ obs_ws = "None") => ENABLED DaemonConnect
    /\ (pc = "standby" /\ obs_ws # "None") => ENABLED DaemonProbe

\* More connects than max_reconnect_attempts have failed in a row and the
\* daemon is still in standby, trying.
C37_Witness ==
    /\ pc = "standby"
    /\ obs_ws = "None"
    /\ step \in FailedLevels
    /\ reconnect_attempts > Daemon_max_reconnect_attempts

\* The calls a transition to absent makes: one for each configured target.
Configured(cfg) ==
    Cardinality({cfg.show_source_name, cfg.hide_source_name} \ {NoName})

\* C38: in the daemon and the native program a cycle whose detector raised
\* is a cycle that saw no face: the loop goes on; if the stored presence was
\* detected it becomes not detected, the transition to absent is emitted and
\* its synchronizations are made; if it was not detected nothing is emitted.
C38_DetectorErrorIsAbsent ==
    [][(/\ variant \in {"daemon", "native"}
        /\ pc \in {"active", "polling"}
        /\ step' = "polled"
        /\ frame' = "error") =>
          /\ pc' = pc
          /\ face_detected' = FALSE
          /\ event' = (IF face_detected THEN "absent" ELSE "none")
          /\ Len(syncs') = (IF face_detected THEN Configured(config) ELSE 0)
          /\ \A i \in 1..Len(syncs') : ~syncs'[i].visible
                                          \/ syncs'[i].source_name = config.hide_source_name]_vars

\* The detector raised while a face was stored: the native program emitted
\* the transition to absent and hid the show target.
C38_Witness ==
    /\ variant = "native"
    /\ pc = "polling"
    /\ step = "polled"
    /\ frame = "error"
    /\ event = "absent"
    /\ ~face_detected
    /\ \E r \in Range(calls) : IsSetEnabled(r) /\ r.ok /\ ~r.sceneItemEnabled

\* The steps with which the native run() leaves its loop.
NativeExits == {"exit_capture", "exit_quit", "exit_error", "stopped"}

OneSetEnabledFailed(cs) ==
    /\ Cardinality(Failed(cs)) = 1
    /\ \A i \in Failed(cs) : IsSetEnabled(cs[i])

FailedCall(cs) == cs[CHOOSE i \in Failed(cs) : TRUE]

IsSetOk(r) == IsSetEnabled(r) /\ r.ok

\* The places the call is left to set when the request for one item fails:
\* the matching items before it in its scene, and the matching items of
\* every other scene that is not excluded.
PlacesAround(its, in_scenes, source_name, failed) ==
    { p \in Places(its, in_scenes, source_name) :
        p[1] = failed.sceneName => its[p[1]][p[2]].sceneItemId < failed.sceneItemId }

\* C40: in FaceDetectionSwitcher.set_source_visibility_global a
\* SetSceneItemEnabled that fails for one matching item gives up the rest of
\* that scene only: the matching items after it in the scene get no request
\* and keep their flag, the ones set before it stay set and counted, and the
\* matching items of the scenes after it are set and counted too.
C40_SwitcherItemFailureEndsScene ==
    (pc = "synced" /\ syncs[1].impl = "switcher" /\ OneSetEnabledFailed(calls)) =>
        LET c == syncs[1]
            failed == FailedCall(calls)
            places == PlacesAround(items0, SceneSet(scenes) \ c.exclude,
                                   c.source_name, failed)
            done == SelectSeq(calls, IsSetOk)
        IN  /\ { <<r.sceneName, r.sceneItemId>> : r \in Range(done) }
                 = { <<p[1], items0[p[1]][p[2]].sceneItemId>> : p \in places }
            /\ Len(done) = Cardinality(places)
            /\ Len(SetCalls(calls)) = Len(done) + 1
            /\ items = WithFlag(items0, places, c.visible)
            /\ c.changes_made = Cardinality(places)
            /\ c.result = (places # {})
            /\ \A s \in (SceneSet(scenes) \ c.exclude) :
                  \E r \in Range(calls) : IsItemList(r) /\ r.sceneName = s /\ r.ok

\* C40 witness: A holds three "Cam" items and the request for the second
\* failed: the first is set and counted, the third is untouched, and the
\* item lists of B and C were still fetched.
C40_Witness ==
    /\ pc = "synced" /\ syncs[1].impl = "switcher" /\ OneSetEnabledFailed(calls)
    /\ syncs[1].exclude = {} /\ syncs[1].visible
    /\ Len(items0["A"]) = 3
    /\ \A k \in 1..3 : items0["A"][k].sourceName = "Cam" /\ ~items0["A"][k].sceneItemEnabled
    /\ FailedCall(calls).sceneName = "A"
    /\ FailedCall(calls).sceneItemId = items0["A"][2].sceneItemId
    /\ items["A"][1].sceneItemEnabled
    /\ ~items["A"][2].sceneItemEnabled /\ ~items["A"][3].sceneItemEnabled
    /\ syncs[1].changes_made = 1 /\ syncs[1].result
    /\ \E r \in Range(calls) : IsItemList(r) /\ r.sceneName = "C" /\ r.ok

====
